---- MODULE Spec2Model ----
(***************************************************************************)
(* publify: the page-classification and chapterization pipeline, and the   *)
(* worker pool.                                                            *)
(*                                                                         *)
(*   pkg/converter/pdf.go     PDFProcessor (ProcessPages, ProcessPage),    *)
(*                            MarkovChain (train, scoreText), cleanText    *)
(*   converter.go             Converter.groupPagesIntoChapters,            *)
(*                            Converter.isTimeSpanChapterMarker,           *)
(*                            Converter.Convert, Converter.generateEPUB    *)
(*   text.go                  TextProcessor.ProcessText                    *)
(*   page_range.go            ParsePageRanges, ValidateAgainstTotal        *)
(*   epub.go                  EPUBGenerator.AddChapter                     *)
(*   internal/worker/pool.go  Pool (Start, Submit, worker, Stop,           *)
(*                            ForceStop, Results)                          *)
(*                                                                         *)
(* Go strings are TLA+ strings over ASCII; a character is a string of      *)
(* length one.  A float64 score is a fixed-point integer, Scale units to   *)
(* one (so -10.0 is -10 * Scale).                                          *)
(***************************************************************************)
EXTENDS Integers, Sequences, FiniteSets, Bags, TLC

VARIABLES
    pc,                 \* which function is running and where it stands
    \* Converter.groupPagesIntoChapters
    pages,              \* its argument: []PDFPage
    i,                  \* the loop index (0-based, as in the source)
    chapters,           \* [][]PDFPage
    currentChapter,     \* []PDFPage
    currentTextLength,  \* int
    \* PDFProcessor
    doc,                \* what the PDF and OCR collaborators give for each page
    enableOCR,          \* p.enableOCR && p.ocrProcessor != nil
    skipPages,          \* p.skipPages
    imagePageRange,     \* p.imagePageRange
    rejectedPages,      \* p.rejectedPages
    outPages,           \* processSequentially: pages
    pageIdx,            \* processSequentially: i
    ctxDone,            \* processSequentially: ctx is cancelled
    result,             \* what ProcessPages returned
    \* one classifier call
    callText,           \* the text argument of the call
    callPage,           \* the pageNum argument of the call
    callResult,         \* what the call returned
    callAgain,          \* what the same call, made once more, returned
    \* TextProcessor
    tpText,             \* the argument of ProcessText
    tpMinimize,         \* tp.options.MinimizeFileSize
    tpOut,              \* what ProcessText returned
    tpAgain,            \* what ProcessText returned for its own output
    \* Converter and EPUBGenerator
    options,            \* c.options: ImagePageRange, SkipPages, EnableOCR
    convErr,            \* what Convert returned
    genErr,             \* what generateEPUB returned
    stats,              \* c.stats
    sections,           \* the sections added to the EPUB
    chapterIdx,         \* generateEPUB: the chapters added so far
    acPages,            \* the pages AddChapter is called with
    acErr,              \* what AddChapter returned
    \* cleanText
    ctText,             \* the argument of cleanText
    ctOut,              \* what cleanText returned
    ctAgain,            \* what cleanText returned for its own output
    \* the time-span recognisers
    tsLine,             \* the line the two recognisers are called on
    tsMarker,           \* what Converter.isTimeSpanChapterMarker returned
    tsSpan,             \* what TextProcessor.isTimeSpan returned
    \* worker.Pool
    workerCount,        \* p.workerCount
    numJobs,            \* the jobs the client submits, numbered from 1
    poolPc,             \* the client: Start, and where Stop or ForceStop stands
    jobs,               \* p.jobs: the jobs in the buffer of the channel
    jobsClosed,         \* p.jobs is closed
    results,            \* p.results: the results in the buffer of the channel
    resultsClosed,      \* p.results is closed
    poolCtxDone,        \* p.ctx is cancelled
    wg,                 \* p.wg: the workers that have not returned
    workerPc,           \* where each worker stands
    workerJob,          \* the job each worker has received
    submitPc,           \* where the goroutine that calls Submit stands
    submitted,          \* the calls of Submit that have returned
    afterSubmits,       \* Stop or ForceStop was called after every Submit had returned
    processedJobs,      \* the bag of the jobs job.Process was called on
    processedBy,        \* the workers that have called job.Process
    sent,               \* the bag of results sent on p.results
    received,           \* the bag of results received from Results()
    panicked            \* the channel a goroutine has sent on after it was closed

vars == <<pc, pages, i, chapters, currentChapter, currentTextLength,
          doc, enableOCR, skipPages, imagePageRange, rejectedPages, outPages,
          pageIdx, ctxDone, result, callText, callPage, callResult,
          callAgain, tpText, tpMinimize, tpOut, tpAgain,
          options, convErr, genErr, stats, sections, chapterIdx, acPages, acErr,
          ctText, ctOut, ctAgain,
          tsLine, tsMarker, tsSpan,
          workerCount, numJobs, poolPc, jobs, jobsClosed, results, resultsClosed,
          poolCtxDone, wg, workerPc, workerJob, submitPc, submitted, afterSubmits,
          processedJobs, processedBy, sent, received, panicked>>

segVars == <<pages, i, chapters, currentChapter, currentTextLength>>
procVars == <<doc, enableOCR, skipPages, imagePageRange, rejectedPages,
              outPages, pageIdx, ctxDone, result>>
callVars == <<callText, callPage, callResult, callAgain>>
textVars == <<tpText, tpMinimize, tpOut, tpAgain>>
convVars == <<options, convErr, genErr, stats, sections, chapterIdx, acPages, acErr>>
cleanTextVars == <<ctText, ctOut, ctAgain>>
timeSpanVars == <<tsLine, tsMarker, tsSpan>>
poolVars == <<workerCount, numJobs, poolPc, jobs, jobsClosed, results, resultsClosed,
              poolCtxDone, wg, workerPc, workerJob, submitPc, submitted,
              afterSubmits, processedJobs, processedBy, sent, received, panicked>>

(***************************************************************************)
(* Package strings, as far as the pipeline uses it.                        *)
(***************************************************************************)
Char(s, k) == SubSeq(s, k, k)

LowerLetters ==
    <<"a", "b", "c", "d", "e", "f", "g", "h", "i", "j", "k", "l", "m",
      "n", "o", "p", "q", "r", "s", "t", "u", "v", "w", "x", "y", "z">>

UpperLetters ==
    <<"A", "B", "C", "D", "E", "F", "G", "H", "I", "J", "K", "L", "M",
      "N", "O", "P", "Q", "R", "S", "T", "U", "V", "W", "X", "Y", "Z">>

Digits == {"0", "1", "2", "3", "4", "5", "6", "7", "8", "9"}

\* 'a' <= c && c <= 'z'
IsLower(c) == c \in {LowerLetters[k] : k \in 1..26}

IsDigit(c) == c \in Digits

\* unicode.IsSpace on ASCII
IsSpace(c) == c \in {" ", "\t", "\n", "\r", "\f"}

\* unicode.ToLower on ASCII, for the upper case letters
LowerOf == [k \in {UpperLetters[n] : n \in 1..26} |->
               LowerLetters[CHOOSE n \in 1..26 : UpperLetters[n] = k]]

LowerChar(c) == IF c \in DOMAIN LowerOf THEN LowerOf[c] ELSE c

\* strings.ToLower (by halving: the depth of the recursion stays small)
RECURSIVE ToLower(_)
ToLower(s) ==
    IF Len(s) = 0 THEN ""
    ELSE IF Len(s) = 1 THEN LowerChar(s)
    ELSE LET mid == Len(s) \div 2
         IN ToLower(SubSeq(s, 1, mid)) \o ToLower(SubSeq(s, mid + 1, Len(s)))

\* strings.Repeat
RECURSIVE Repeat(_, _)
Repeat(s, n) ==
    IF n <= 0 THEN ""
    ELSE IF n = 1 THEN s
    ELSE Repeat(s, n \div 2) \o Repeat(s, n - (n \div 2))

\* The number of leading white space characters of s from index k on.
RECURSIVE LeadingSpace(_, _)
LeadingSpace(s, k) ==
    IF k > Len(s) \/ ~IsSpace(Char(s, k)) THEN k - 1 ELSE LeadingSpace(s, k + 1)

\* The index of the last character of s, at or before k, that is no white space.
RECURSIVE LastNonSpace(_, _)
LastNonSpace(s, k) ==
    IF k < 1 \/ ~IsSpace(Char(s, k)) THEN k ELSE LastNonSpace(s, k - 1)

\* strings.TrimSpace
TrimSpace(s) ==
    LET a == LeadingSpace(s, 1) + 1
        b == LastNonSpace(s, Len(s))
    IN IF a > b THEN "" ELSE SubSeq(s, a, b)

\* strings.Contains
Contains(s, sub) ==
    \E k \in 1..(Len(s) - Len(sub) + 1) : SubSeq(s, k, k + Len(sub) - 1) = sub

\* The index of the first line break of s in lo..hi, hi + 1 if it has none
\* (by halving, the left half first).
RECURSIVE LineEnd(_, _, _)
LineEnd(s, lo, hi) ==
    IF lo > hi THEN hi + 1
    ELSE IF lo = hi THEN (IF Char(s, lo) = "\n" THEN lo ELSE hi + 1)
    ELSE LET mid == (lo + hi) \div 2
             left == LineEnd(s, lo, mid)
         IN IF left <= mid THEN left ELSE LineEnd(s, mid + 1, hi)

\* strings.Split(s, "\n")[0]
FirstLine(s) == SubSeq(s, 1, LineEnd(s, 1, Len(s)) - 1)

\* strings.Split(s, "\n"): the lines of s, one more than its line breaks.
SplitLines(s) ==
    LET nl == {k \in 1..Len(s) : Char(s, k) = "\n"}
        cut == nl \cup {0, Len(s) + 1}
        Nth(n) == CHOOSE k \in cut : Cardinality({j \in cut : j < k}) = n
    IN [n \in 1..(Cardinality(nl) + 1) |-> SubSeq(s, Nth(n - 1) + 1, Nth(n) - 1)]

\* strings.Join(lines, "\n")
RECURSIVE JoinLines(_)
JoinLines(lines) ==
    IF Len(lines) = 0 THEN ""
    ELSE IF Len(lines) = 1 THEN lines[1]
    ELSE LET mid == Len(lines) \div 2
         IN JoinLines(SubSeq(lines, 1, mid)) \o "\n"
              \o JoinLines(SubSeq(lines, mid + 1, Len(lines)))

\* strings.Fields: the maximal runs of characters that are no white space.
Fields(s) ==
    LET starts == {k \in 1..Len(s) :
                      /\ ~IsSpace(Char(s, k))
                      /\ (k = 1 \/ IsSpace(Char(s, k - 1)))}
        ends == {k \in 1..Len(s) :
                      /\ ~IsSpace(Char(s, k))
                      /\ (k = Len(s) \/ IsSpace(Char(s, k + 1)))}
        NthOf(S, n) == CHOOSE k \in S : Cardinality({j \in S : j < k}) = n - 1
    IN [n \in 1..Cardinality(starts) |-> SubSeq(s, NthOf(starts, n), NthOf(ends, n))]

\* strings.Trim(s, cutset), cutset a set of characters
Trim(s, cutset) ==
    LET keep == {k \in 1..Len(s) : Char(s, k) \notin cutset}
    IN IF keep = {} THEN ""
       ELSE SubSeq(s, CHOOSE k \in keep : \A j \in keep : k <= j,
                      CHOOSE k \in keep : \A j \in keep : k >= j)

(***************************************************************************)
(* The texts of the runs: what the PDF library and the OCR engine give for *)
(* a page, and the texts the classifier is called on.                      *)
(***************************************************************************)
\* the longest text the classifier is called on, white space aside
MaxTextLen == 24

\* consonants, every pair of them unseen in training
NoiseA == "zxqv zxqv zxqv zxqv zxqv"

NoiseB == "bqdkfqgjbqdkfqgjbqdkfq"

NoiseLong == Repeat("zxqv ", 12)

Prose27 == "the crew waited at the gate"

Prose56 == "the aircraft taxied to the gate whilst passengers waited"

Prose60 == "the crew waited at the gate for boarding and the flight left"

Source(text, ocr) ==
    [open |-> TRUE, textErr |-> FALSE, text |-> text, image |-> TRUE,
     ocrErr |-> FALSE, ocr |-> ocr]

\* what the collaborators may give for one page
PageSources ==
    {Source("", ""), Source("", "scanned title"), Source("", Prose56),
     Source("", TrimSpace(NoiseLong)), Source("Title page", Prose56),
     Source(Prose27, Prose56), Source(Prose27, TrimSpace(NoiseLong)),
     Source(NoiseA, TrimSpace(NoiseLong)), Source(NoiseA, Prose56),
     Source(NoiseB, "scanned it"), Source(Prose60, Prose56),
     Source("  the crew\r\nwaited  \r\r\n\n at the gate for boarding \n", ""),
     [Source(Prose27, Prose56) EXCEPT !.open = FALSE],
     [Source(Prose27, Prose56) EXCEPT !.textErr = TRUE],
     [Source(Prose27, Prose56) EXCEPT !.image = FALSE],
     [Source(NoiseA, Prose56) EXCEPT !.ocrErr = TRUE]}

\* the texts the classifier is called on: the first n characters of a unit
\* repeated, white space around them
CallUnits ==
    {"x", "7", "a ", "th", "zq", "the crew ", "5-6am ", "a: ", "Zx9", ". - ",
     "it is clear they waited ", "zq ", "it is so we go on "}

CallTexts ==
    {Repeat(" ", l) \o SubSeq(Repeat(u, MaxTextLen), 1, n) \o Repeat("\n", r) :
        l \in 0..1, r \in 0..1, u \in CallUnits, n \in 0..MaxTextLen}

(***************************************************************************)
(* MarkovChain: the character-level model behind the bleed-through         *)
(* classifier.                                                             *)
(***************************************************************************)
\* Fixed point: a float64 x is the integer x * Scale.
Scale == 100000

englishSamples ==
    <<
      "the quick brown fox jumps over the lazy dog",
      "this is a sample of normal english text that should have good probability",
      "common words like and the with for not but his from they she her been than",
      "normal sentences with proper punctuation and capitalization",
      "reading writing speaking listening are important language skills",
      "chapter one introduction to the basic concepts of literature and writing",
      "the author presents compelling arguments about human nature and society",
      "in this section we examine the historical context and its implications",
      "furthermore the evidence suggests that these conclusions are well founded",
      "therefore it becomes clear that understanding these principles is essential",
      "however there are several important considerations that must be addressed",
      "consequently the reader should carefully evaluate these different perspectives",
      "meanwhile the protagonist discovers new information that changes everything",
      "nevertheless the fundamental questions remain unanswered and require further study",
      "although the initial results were promising the final outcome was disappointing",
      "because of these factors the committee decided to postpone the final decision",
      "according to recent research findings the phenomenon occurs more frequently than expected",
      "throughout history many scholars have attempted to explain this complex relationship",
      "during the investigation several witnesses provided contradictory statements about the events",
      "despite numerous attempts to resolve the conflict the parties could not reach agreement",
      "the flight attendant recognised the problem straightaway and organised a proper response",
      "bloody hell that was brilliant absolutely smashing work mate well done indeed",
      "the aircraft taxied to the gate whilst passengers organised their belongings and waited patiently",
      "check in desk queue baggage handlers uniform security clearance airport terminal",
      "the crew realised they needed to prioritise safety whilst maintaining excellent customer service",
      "favourite colour honour neighbour centre theatre licence practise organised travelled cancelled",
      "brilliant chap lovely weather rather fancy spot of tea properly sorted cheers mate",
      "aeroplane petrol colour grey aluminium whilst amongst programme tyre plough labour favour",
      "flight crew cabin pressure oxygen masks emergency procedures safety demonstration boarding passes",
      "immigration customs duty free departure lounge boarding gate overhead compartments seat belts",
      "turbulence captain announcement weather conditions delayed cancelled diverted rescheduled",
      "first class business class economy premium seats upgrades frequent flyer miles loyalty points",
      "runway takeoff landing approach air traffic control tower ground staff maintenance hangar"
    >>

\* MarkovChain.train on the positions lo..hi of one text, by halving: the bag
\* of the pairs current, next (w = 2: mc.transitions[current][next]++) or of
\* the characters current (w = 1: mc.totals[current]++).
RECURSIVE train(_, _, _, _)
train(text, lo, hi, w) ==
    IF lo > hi THEN EmptyBag
    ELSE IF lo = hi THEN SetToBag({SubSeq(text, lo, lo + w - 1)})
    ELSE LET mid == (lo + hi) \div 2
         IN train(text, lo, mid, w) (+) train(text, mid + 1, hi, w)

\* NewEnglishMarkovChain: train on the first n samples, lowercased.
RECURSIVE trainAll(_, _)
trainAll(n, w) ==
    IF n = 0 THEN EmptyBag
    ELSE LET text == ToLower(englishSamples[n])
         IN trainAll(n - 1, w) (+) train(text, 1, Len(text) - 1, w)

\* mc.transitions: how often each pair current, next was seen.
transitions == trainAll(Len(englishSamples), 2)

\* mc.totals: the transitions seen from each character.
totals == trainAll(Len(englishSamples), 1)

\* an unseen transition given 0.1
getTransitionProbability_HighFloor(current, next) ==
    IF /\ BagIn(current, totals)
       /\ CopiesIn(current, totals) > 0
       /\ BagIn(current \o next, transitions)
    THEN <<CopiesIn(current \o next, transitions), CopiesIn(current, totals)>>
    ELSE <<1, 10>>

\* MarkovChain.getTransitionProbability, as the fraction <<num, den>>.
getTransitionProbability(current, next) ==
    IF /\ BagIn(current, totals)
       /\ CopiesIn(current, totals) > 0
       /\ BagIn(current \o next, transitions)
    THEN <<CopiesIn(current \o next, transitions), CopiesIn(current, totals)>>
    ELSE <<1, 100>>

\* ln(2) in fixed point
Ln2 == 69315

\* floor(log2(n)) for n >= 1
RECURSIVE Log2(_)
Log2(n) == IF n < 2 THEN 0 ELSE 1 + Log2(n \div 2)

\* math.Log of an integer n >= 1, in fixed point: n = 2^k * m with 1 <= m < 2,
\* ln(n) = k * ln(2) + 2 * atanh((m - 1) / (m + 1)), the series cut after y^13.
LnInt(n) ==
    LET k == Log2(n)
        y == ((n - 2^k) * Scale) \div (n + 2^k)
        y2 == (y * y) \div Scale
        t3 == (y * y2) \div Scale
        t5 == (t3 * y2) \div Scale
        t7 == (t5 * y2) \div Scale
        t9 == (t7 * y2) \div Scale
        t11 == (t9 * y2) \div Scale
        t13 == (t11 * y2) \div Scale
    IN k * Ln2
       + 2 * (y + t3 \div 3 + t5 \div 5 + t7 \div 7 + t9 \div 9
                + t11 \div 11 + t13 \div 13)

\* math.Log(num / den)
Ln(prob) == LnInt(prob[1]) - LnInt(prob[2])

\* calculateSingleCharPenalty with the two ratios compared by >=
calculateSingleCharPenalty_NotStrict(text) ==
    LET words == Fields(text)
        totalWords == Len(words)
        singleCharCount ==
            Cardinality({n \in 1..totalWords :
                Len(Trim(words[n], {".", ",", "!", "?", ":", ";"})) \in {1, 2}})
    IN IF totalWords = 0 THEN -1 * Scale
       ELSE IF 10 * singleCharCount >= 4 * totalWords THEN -15 * (Scale \div 10)
       ELSE IF 10 * singleCharCount >= 2 * totalWords THEN -5 * (Scale \div 10)
       ELSE 0

\* MarkovChain.calculateSingleCharPenalty
calculateSingleCharPenalty(text) ==
    LET words == Fields(text)
        totalWords == Len(words)
        singleCharCount ==
            Cardinality({n \in 1..totalWords :
                Len(Trim(words[n], {".", ",", "!", "?", ":", ";"})) \in {1, 2}})
    IN IF totalWords = 0 THEN -1 * Scale
       \* shortWordRatio > 0.4
       ELSE IF 10 * singleCharCount > 4 * totalWords THEN -15 * (Scale \div 10)
       \* shortWordRatio > 0.2
       ELSE IF 10 * singleCharCount > 2 * totalWords THEN -5 * (Scale \div 10)
       ELSE 0

\* every transition scored, alphabetic or not
ScoredPair_AnyPair(text, k) == TRUE

\* runes[i] and next are both in 'a'..'z'
ScoredPair(text, k) == IsLower(Char(text, k)) /\ IsLower(Char(text, k + 1))

\* The positions of text the loop of scoreText scores.
ScoredPairs(text) == {k \in 1..(Len(text) - 1) : ScoredPair(text, k)}

\* logProb after the loop of scoreText over the positions lo..hi, by halving.
RECURSIVE SumLogProb(_, _, _)
SumLogProb(text, lo, hi) ==
    IF lo > hi THEN 0
    ELSE IF lo = hi
    THEN IF ScoredPair(text, lo)
         THEN Ln(getTransitionProbability(Char(text, lo), Char(text, lo + 1)))
         ELSE 0
    ELSE LET mid == (lo + hi) \div 2
         IN SumLogProb(text, lo, mid) + SumLogProb(text, mid + 1, hi)

\* prob < 0.005
Suspicious(prob) == 1000 * prob[1] < 5 * prob[2]

\* MarkovChain.scoreText
scoreText(input) ==
    LET text == ToLower(input)
        scored == ScoredPairs(text)
        count == Cardinality(scored)
        logProb == SumLogProb(text, 1, Len(text) - 1)
        suspiciousPatterns ==
            Cardinality({k \in scored :
                Suspicious(getTransitionProbability(Char(text, k), Char(text, k + 1)))})
        baseScore == logProb \div count
        suspiciousPenalty == (suspiciousPatterns * (-2) * Scale) \div count
        singleCharPenalty == calculateSingleCharPenalty(text)
    IN IF Len(text) < 2 THEN -10 * Scale
       ELSE IF count = 0 THEN -10 * Scale
       ELSE baseScore + suspiciousPenalty + singleCharPenalty

(***************************************************************************)
(* PDFProcessor: the classifier calls.                                     *)
(***************************************************************************)
\* threshold := -3.8
threshold == -38 * (Scale \div 10)

\* The texts of the runs as the classifier scores them, and their scores:
\* scoreText is a function of its input and of the trained chain alone, so a
\* text is scored once.
RunTexts ==
    {TrimSpace(t) : t \in CallTexts}
        \cup {TrimSpace(src.text) : src \in PageSources}
        \cup {TrimSpace(src.ocr) : src \in PageSources}

scoreTable == [t \in RunTexts |-> scoreText(t)]

\* p.markovChain.scoreText(text)
markovChainScore(text) ==
    IF text \in RunTexts THEN scoreTable[text] ELSE scoreText(text)

\* the classifier without its test of the length
isLikelyBleedThrough_NoLengthGuard(text) ==
    markovChainScore(TrimSpace(text)) < threshold

\* PDFProcessor.isLikelyBleedThrough: the value it returns.
isLikelyBleedThrough(text) ==
    LET t == TrimSpace(text)
    IN IF Len(t) < 20 THEN FALSE
       ELSE markovChainScore(t) < threshold

\* the page number tracked whatever the verdict
trackRejected_Always(rejected, pageNum, text) == Append(rejected, pageNum)

\* PDFProcessor.isLikelyBleedThrough: p.rejectedPages after the call.
trackRejected(rejected, pageNum, text) ==
    IF isLikelyBleedThrough(text) THEN Append(rejected, pageNum) ELSE rejected

\* PDFProcessor.ValidateTextContent (p.markovChain is set by NewPDFProcessor)
ValidateTextContent(text, thr) ==
    LET t == TrimSpace(text)
    IN IF Len(t) < 20 THEN [score |-> 0, isBleedThrough |-> FALSE]
       ELSE [score |-> markovChainScore(t),
             isBleedThrough |-> markovChainScore(t) < thr]

\* cleanText: "\r\n" and then "\r" become "\n", over the positions lo..hi.
RECURSIVE normalizeLineEnds(_, _, _)
normalizeLineEnds(text, lo, hi) ==
    IF lo > hi THEN ""
    ELSE IF lo = hi
    THEN IF Char(text, lo) # "\r" THEN Char(text, lo)
         ELSE IF lo < Len(text) /\ Char(text, lo + 1) = "\n" THEN ""
         ELSE "\n"
    ELSE LET mid == (lo + hi) \div 2
         IN normalizeLineEnds(text, lo, mid) \o normalizeLineEnds(text, mid + 1, hi)

\* cleanText: cleanLines after the loop has seen the first n lines.
RECURSIVE cleanLines(_, _)
cleanLines(lines, n) ==
    IF n = 0 THEN <<>>
    ELSE LET before == cleanLines(lines, n - 1)
             line == TrimSpace(lines[n])
         IN IF line # "" THEN Append(before, line)
            ELSE IF Len(before) > 0 /\ before[Len(before)] # ""
            THEN Append(before, "")
            ELSE before

\* cleanText with every blank line kept
cleanText_BlankLinesKept(text) ==
    LET lines == SplitLines(normalizeLineEnds(text, 1, Len(text)))
    IN JoinLines([k \in 1..Len(lines) |-> TrimSpace(lines[k])])

\* cleanText
cleanText(text) ==
    LET lines == SplitLines(normalizeLineEnds(text, 1, Len(text)))
    IN JoinLines(cleanLines(lines, Len(lines)))

\* One call of cleanText.
CleanTextStep ==
    /\ pc = "cleanText"
    /\ ctOut' = cleanText(ctText)
    /\ pc' = "cleanedText"
    /\ UNCHANGED <<ctText, ctAgain, segVars, procVars, callVars, textVars, convVars>>
    /\ UNCHANGED <<timeSpanVars, poolVars>>

\* cleanText called on what it returned.
CleanTextAgainStep ==
    /\ pc = "cleanedText"
    /\ ctAgain' = cleanText(ctOut)
    /\ pc' = "recleanedText"
    /\ UNCHANGED <<ctText, ctOut, segVars, procVars, callVars, textVars, convVars>>
    /\ UNCHANGED <<timeSpanVars, poolVars>>

(***************************************************************************)
(* PDFProcessor.ProcessPage and PDFProcessor.ProcessPages.                 *)
(*                                                                         *)
(* doc[n] is what the collaborators give for page n:                       *)
(*   open     pool.GetInstance and instance.OpenDocument succeed           *)
(*   textErr  instance.GetPageText fails                                   *)
(*   text     the text GetPageText returns                                 *)
(*   image    instance.RenderPageInDPI succeeds with an image              *)
(*   ocrErr   ocrProcessor.ExtractTextFromImage fails                      *)
(*   ocr      the text it returns (ExtractTextFromFile trims it)           *)
(***************************************************************************)
\* the page types
PageTypeText == "text"

PageTypeImage == "image"

\* GetPageType
GetPageType(pageNum, ranges) ==
    IF pageNum \in ranges THEN PageTypeImage ELSE PageTypeText

\* A PDFPage as ProcessPage fills it in.
PDFPage(number, text, pageType) ==
    [Number |-> number, Text |-> text, HasText |-> Len(TrimSpace(text)) > 0,
     HasImage |-> (pageType = PageTypeImage), PageType |-> pageType]

\* PDFPage{}: an element of make([]PDFPage, pageCount)
ZeroPage ==
    [Number |-> 0, Text |-> "", HasText |-> FALSE, HasImage |-> FALSE,
     PageType |-> PageTypeText]

\* ProcessPage: the text after extraction.
extractedText(src) ==
    IF src.textErr \/ src.text = "" THEN "" ELSE cleanText(src.text)

\* ProcessPage: shouldTryOCR and the render and the OCR call succeeded.
ocrRan(src, text, ocrOn) ==
    /\ ocrOn
    /\ (text = "" \/ Len(TrimSpace(text)) < 50)
    /\ src.image
    /\ ~src.ocrErr

\* any OCR text taken for the more substantial
ocrIsLonger_Always(ocrTextClean, textClean) == TRUE

\* ProcessPage: the OCR text provides more substantial text.
ocrIsLonger(ocrTextClean, textClean) ==
    \/ Len(ocrTextClean) > Len(textClean) + 20
    \/ (textClean = "" /\ Len(ocrTextClean) > 10)

\* ProcessPage: the classifier is asked about the OCR text.
ocrChecked(src, text, ocrOn) ==
    /\ ocrRan(src, text, ocrOn)
    /\ ocrIsLonger(TrimSpace(src.ocr), TrimSpace(text))

\* ProcessPage: the text after the OCR step.
textAfterOCR(src, text, ocrOn) ==
    IF ocrChecked(src, text, ocrOn) /\ ~isLikelyBleedThrough(TrimSpace(src.ocr))
    THEN src.ocr
    ELSE text

\* ProcessPage: the classifier is asked about the text the OCR step left.
textChecked(text) == text # "" /\ Len(TrimSpace(text)) >= 20

\* ProcessPage: the text of the page it returns.
finalText(text) ==
    IF textChecked(text) /\ isLikelyBleedThrough(text) THEN "" ELSE text

\* no page skipped
isSkipped_Never(pageNum, skip) == FALSE

\* p.skipPages[pageNum]
isSkipped(pageNum, skip) == pageNum \in skip

\* PDFProcessor.ProcessPage on a page that is in range: the page, whether an
\* error is returned instead, and p.rejectedPages after the call.
ProcessPage(pageNum, src, ocrOn, skip, ranges, rejected) ==
    LET text0 == extractedText(src)
        text1 == textAfterOCR(src, text0, ocrOn)
        rejected1 == IF ocrChecked(src, text0, ocrOn)
                     THEN trackRejected(rejected, pageNum, TrimSpace(src.ocr))
                     ELSE rejected
        rejected2 == IF textChecked(text1)
                     THEN trackRejected(rejected1, pageNum, text1)
                     ELSE rejected1
    IN IF isSkipped(pageNum, skip)
       THEN [page |-> PDFPage(pageNum, "", PageTypeText), err |-> FALSE,
             rejected |-> rejected]
       ELSE IF ~src.open
       THEN [page |-> ZeroPage, err |-> TRUE, rejected |-> rejected]
       ELSE [page |-> PDFPage(pageNum, finalText(text1), GetPageType(pageNum, ranges)),
             err |-> FALSE, rejected |-> rejected2]

\* p.GetPageCount()
pageCount == Len(doc)

\* processSequentially: one iteration of the loop.
ProcessStep ==
    /\ pc = "process"
    /\ pageIdx < pageCount
    /\ IF ctxDone
       THEN /\ result' = [pages |-> <<>>, err |-> "context canceled", page |-> 0]
            /\ pc' = "processed"
            /\ UNCHANGED <<outPages, pageIdx, rejectedPages>>
       ELSE \E r \in {ProcessPage(pageIdx + 1, doc[pageIdx + 1], enableOCR, skipPages,
                                    imagePageRange, rejectedPages)} :
               /\ rejectedPages' = r.rejected
               /\ IF r.err
                  THEN /\ result' = [pages |-> <<>>, err |-> "failed to process page",
                                     page |-> pageIdx + 1]
                       /\ pc' = "processed"
                       /\ UNCHANGED <<outPages, pageIdx>>
                  ELSE /\ outPages' = [outPages EXCEPT ![pageIdx + 1] = r.page]
                       /\ pageIdx' = pageIdx + 1
                       /\ UNCHANGED <<pc, result>>
    /\ UNCHANGED <<doc, enableOCR, skipPages, imagePageRange, ctxDone, segVars,
                   callVars, textVars, convVars>>
    /\ UNCHANGED <<cleanTextVars, timeSpanVars, poolVars>>

\* processSequentially: the loop is over, the pages are returned.
ProcessReturn ==
    /\ pc = "process"
    /\ pageIdx = pageCount
    /\ result' = [pages |-> outPages, err |-> "", page |-> 0]
    /\ pc' = "processed"
    /\ UNCHANGED <<doc, enableOCR, skipPages, imagePageRange, rejectedPages,
                   outPages, pageIdx, ctxDone, segVars, callVars, textVars, convVars>>
    /\ UNCHANGED <<cleanTextVars, timeSpanVars, poolVars>>

\* The caller cancels ctx while the pages are processed.
Cancel ==
    /\ pc = "process"
    /\ ~ctxDone
    /\ ctxDone' = TRUE
    /\ UNCHANGED <<pc, doc, enableOCR, skipPages, imagePageRange, rejectedPages,
                   outPages, pageIdx, result, segVars, callVars, textVars, convVars>>
    /\ UNCHANGED <<cleanTextVars, timeSpanVars, poolVars>>

\* One call of the classifier: isLikelyBleedThrough(callPage, callText), with
\* the score ValidateTextContent gives for the same text.
ClassifierCall ==
    /\ pc = "call"
    /\ callResult' = [isBleedThrough |-> isLikelyBleedThrough(callText),
                      validated |-> ValidateTextContent(callText, threshold),
                      score |-> markovChainScore(TrimSpace(callText))]
    /\ rejectedPages' = trackRejected(rejectedPages, callPage, callText)
    /\ pc' = "called"
    /\ UNCHANGED <<callText, callPage, callAgain, doc, enableOCR, skipPages,
                   imagePageRange, outPages, pageIdx, ctxDone, result, segVars, textVars, convVars>>
    /\ UNCHANGED <<cleanTextVars, timeSpanVars, poolVars>>

\* The same call made once more, on the processor as the first call left it.
ClassifierCallAgain ==
    /\ pc = "called"
    /\ callAgain' = [isBleedThrough |-> isLikelyBleedThrough(callText),
                     validated |-> ValidateTextContent(callText, threshold),
                     score |-> markovChainScore(TrimSpace(callText))]
    /\ rejectedPages' = trackRejected(rejectedPages, callPage, callText)
    /\ pc' = "recalled"
    /\ UNCHANGED <<callText, callPage, callResult, doc, enableOCR, skipPages,
                   imagePageRange, outPages, pageIdx, ctxDone, result, segVars, textVars, convVars>>
    /\ UNCHANGED <<cleanTextVars, timeSpanVars, poolVars>>

(***************************************************************************)
(* Converter.isTimeSpanChapterMarker.  A regular expression is matched by  *)
(* the set of positions it can have read up to: each piece maps the set of *)
(* positions before it to the set of positions after it.                   *)
(***************************************************************************)
\* a literal
ReLit(s, P, lit) ==
    {p + Len(lit) : p \in {q \in P : /\ q + Len(lit) - 1 <= Len(s)
                                      /\ SubSeq(s, q, q + Len(lit) - 1) = lit}}

\* \d{n}
ReDigits(s, P, n) ==
    {p + n : p \in {q \in P : /\ q + n - 1 <= Len(s)
                              /\ \A k \in q..(q + n - 1) : IsDigit(Char(s, k))}}

\* \d{1,2}
ReHour(s, P) == ReDigits(s, P, 1) \cup ReDigits(s, P, 2)

\* (:\d{2})?
ReMinutes(s, P) == P \cup ReDigits(s, ReLit(s, P, ":"), 2)

\* \s*
ReSpaces(s, P) ==
    {q \in 1..(Len(s) + 1) :
        \E p \in P : p <= q /\ \A k \in p..(q - 1) : IsSpace(Char(s, k))}

\* (-|\s*to\s*)
ReSeparator(s, P) ==
    ReLit(s, P, "-") \cup ReSpaces(s, ReLit(s, ReSpaces(s, P), "to"))

\* (am|pm)
ReAmPm(s, P) == ReLit(s, P, "am") \cup ReLit(s, P, "pm")

\* ^ ... $
ReWhole(s, P) == (Len(s) + 1) \in P

\* ^\d{1,2}(:\d{2})?(-|\s*to\s*)\d{1,2}(:\d{2})?(am|pm)$
timePattern1(s) ==
    ReWhole(s, ReAmPm(s, ReMinutes(s, ReHour(s,
        ReSeparator(s, ReMinutes(s, ReHour(s, {1})))))))

\* ^\d{1,2}(:\d{2})?(am|pm)(-|\s*to\s*)\d{1,2}(:\d{2})?(am|pm)$
timePattern2(s) ==
    ReWhole(s, ReAmPm(s, ReMinutes(s, ReHour(s,
        ReSeparator(s, ReAmPm(s, ReMinutes(s, ReHour(s, {1}))))))))

\* ^\d{1,2}\.\d{2}(-|\s*to\s*)\d{1,2}\.\d{2}(am|pm)$
timePattern3(s) ==
    ReWhole(s, ReAmPm(s, ReDigits(s, ReLit(s, ReHour(s,
        ReSeparator(s, ReDigits(s, ReLit(s, ReHour(s, {1}), "."), 2))), "."), 2)))

\* Converter.isTimeSpanChapterMarker
isTimeSpanChapterMarker(line) ==
    LET l == ToLower(TrimSpace(line))
    IN timePattern1(l) \/ timePattern2(l) \/ timePattern3(l)

(***************************************************************************)
(* TextProcessor: ProcessText and its steps, HTML conversion off.          *)
(***************************************************************************)
\* the characters of s in lo..hi for which unicode.IsControl holds, '\n' and
\* '\t' aside, removed (by halving)
RECURSIVE stripControl(_, _, _)
stripControl(s, lo, hi) ==
    IF lo > hi THEN ""
    ELSE IF lo = hi
    THEN IF Char(s, lo) \in {"\r", "\f"} THEN "" ELSE Char(s, lo)
    ELSE LET mid == (lo + hi) \div 2
         IN stripControl(s, lo, mid) \o stripControl(s, mid + 1, hi)

\* strings.TrimRight(s, cutset), cutset a set of characters
TrimRight(s, cutset) ==
    LET keep == {k \in 1..Len(s) : Char(s, k) \notin cutset}
    IN IF keep = {} THEN ""
       ELSE SubSeq(s, 1, CHOOSE k \in keep : \A j \in keep : k >= j)

\* unicode.ToUpper on ASCII
UpperChar(c) ==
    IF IsLower(c)
    THEN UpperLetters[CHOOSE n \in 1..26 : LowerLetters[n] = c]
    ELSE c

\* strings.ToUpper (by halving)
RECURSIVE ToUpper(_)
ToUpper(s) ==
    IF Len(s) = 0 THEN ""
    ELSE IF Len(s) = 1 THEN UpperChar(s)
    ELSE LET mid == Len(s) \div 2
         IN ToUpper(SubSeq(s, 1, mid)) \o ToUpper(SubSeq(s, mid + 1, Len(s)))

\* TextProcessor.basicCleanup
basicCleanup(text) ==
    LET stripped == stripControl(text, 1, Len(text))
        lines == SplitLines(normalizeLineEnds(stripped, 1, Len(stripped)))
    IN JoinLines([n \in 1..Len(lines) |-> TrimRight(lines[n], {" ", "\t"})])

\* [class]*
ReStar(s, P, class) ==
    {q \in 1..(Len(s) + 1) :
        \E p \in P : p <= q /\ \A k \in p..(q - 1) : Char(s, k) \in class}

\* [class]+
RePlus(s, P, class) ==
    {q \in 1..(Len(s) + 1) :
        \E p \in P : p < q /\ \A k \in p..(q - 1) : Char(s, k) \in class}

\* \s
SpaceChars == {" ", "\t", "\n", "\r", "\f"}

\* the page number recognised only when it is bare digits
isPageNumber_DigitsOnly(line) ==
    LET l == TrimSpace(line)
    IN ReWhole(l, RePlus(l, {1}, Digits))

\* TextProcessor.isPageNumber: ^\d+$ or ^[-\s]*\d+[-\s\\.]*$
isPageNumber(line) ==
    LET l == TrimSpace(line)
    IN \/ ReWhole(l, RePlus(l, {1}, Digits))
       \/ ReWhole(l, ReStar(l, RePlus(l, ReStar(l, {1}, {"-"} \cup SpaceChars),
                                      Digits),
                            {"-", "\\", "."} \cup SpaceChars))

\* isTimeSpan without the separator "to"
isTimeSpan_DashOnly(line) ==
    LET l == ToLower(TrimSpace(line))
    IN (timePattern1(l) \/ timePattern2(l) \/ timePattern3(l)) /\ ~Contains(l, "to")

\* TextProcessor.isTimeSpan
isTimeSpan(line) ==
    LET l == ToLower(TrimSpace(line))
    IN timePattern1(l) \/ timePattern2(l) \/ timePattern3(l)

\* One call of Converter.isTimeSpanChapterMarker on the line.
TimeSpanMarkerCall ==
    /\ pc \in {"timeSpan", "timeSpanCleaner"}
    /\ tsMarker' = isTimeSpanChapterMarker(tsLine)
    /\ pc' = IF pc = "timeSpan" THEN "timeSpanSegmenter" ELSE "timeSpanBoth"
    /\ UNCHANGED <<tsLine, tsSpan, segVars, procVars, callVars, textVars, convVars,
                   cleanTextVars>>
    /\ UNCHANGED <<poolVars>>

\* One call of TextProcessor.isTimeSpan on the line.
TimeSpanCall ==
    /\ pc \in {"timeSpan", "timeSpanSegmenter"}
    /\ tsSpan' = isTimeSpan(tsLine)
    /\ pc' = IF pc = "timeSpan" THEN "timeSpanCleaner" ELSE "timeSpanBoth"
    /\ UNCHANGED <<tsLine, tsMarker, segVars, procVars, callVars, textVars, convVars,
                   cleanTextVars>>
    /\ UNCHANGED <<poolVars>>

\* TextProcessor.isBookHeader
isBookHeader(line) ==
    LET l == TrimSpace(line)
    IN IF Len(l) < 3 THEN FALSE
       ELSE \/ Contains(ToLower(l), "air babylon")
            \/ /\ Len(l) <= 30
               /\ ~isTimeSpan(l)
               /\ ToUpper(l) = l
               /\ Len(Fields(l)) <= 3

\* removeBookArtifacts: the line is appended to cleanLines
keptLine(line) == line = "" \/ (~isPageNumber(line) /\ ~isBookHeader(line))

\* TextProcessor.removeBookArtifacts
removeBookArtifacts(text) ==
    LET lines == SplitLines(text)
        trimmed == [n \in 1..Len(lines) |-> TrimSpace(lines[n])]
    IN JoinLines(SelectSeq(trimmed, keptLine))

\* [ \t]+ replaced by " ", over the positions lo..hi of s (by halving)
RECURSIVE collapseSpaces(_, _, _)
collapseSpaces(s, lo, hi) ==
    IF lo > hi THEN ""
    ELSE IF lo = hi
    THEN IF Char(s, lo) \notin {" ", "\t"} THEN Char(s, lo)
         ELSE IF lo > 1 /\ Char(s, lo - 1) \in {" ", "\t"} THEN ""
         ELSE " "
    ELSE LET mid == (lo + hi) \div 2
         IN collapseSpaces(s, lo, mid) \o collapseSpaces(s, mid + 1, hi)

\* the line consists of spaces and tabs: it matches [ \t]*
blankLine(line) == \A k \in 1..Len(line) : Char(line, k) \in {" ", "\t"}

\* line k of lines lies between two line breaks and matches [ \t]*
blankBetween(lines, k) == 1 < k /\ k < Len(lines) /\ blankLine(lines[k])

\* \n[ \t]*\n, matched from the left without overlap: line k is the line
\* inside a match (the line break before it is not the end of a match)
RECURSIVE matchedBlank(_, _)
matchedBlank(lines, k) ==
    blankBetween(lines, k) /\ ~matchedBlank(lines, k - 1)

\* \n[ \t]*\n[ \t]*\n, matched from the left without overlap: lines k and
\* k + 1 are the lines inside a match
RECURSIVE matchedBlankPair(_, _)
matchedBlankPair(lines, k) ==
    /\ blankBetween(lines, k)
    /\ blankBetween(lines, k + 1)
    /\ ~matchedBlankPair(lines, k - 1)
    /\ ~matchedBlankPair(lines, k - 2)

\* the lines of the sequence whose index is not in drop
dropLines(lines, drop) ==
    LET keep == {k \in 1..Len(lines) : k \notin drop}
        Nth(n) == CHOOSE k \in keep : Cardinality({j \in keep : j < k}) = n - 1
    IN [n \in 1..Cardinality(keep) |-> lines[Nth(n)]]

\* regexp `\n[ \t]*\n` replaced by "\n\n"
emptyBlankLines(lines) ==
    [k \in 1..Len(lines) |-> IF matchedBlank(lines, k) THEN "" ELSE lines[k]]

\* regexp `\n{3,}` replaced by "\n\n": of the empty lines that follow one
\* another between line breaks, the first stays
squeezeEmptyLines(lines) ==
    dropLines(lines, {k \in 2..(Len(lines) - 1) :
                         /\ lines[k] = ""
                         /\ k > 2
                         /\ lines[k - 1] = ""})

\* regexp `\n[ \t]*\n[ \t]*\n` replaced by "\n\n"
mergeBlankPairs(lines) ==
    dropLines([k \in 1..Len(lines) |->
                  IF matchedBlankPair(lines, k) THEN "" ELSE lines[k]],
              {k \in 2..Len(lines) : matchedBlankPair(lines, k - 1)})

\* TextProcessor.normalizeWhitespace
normalizeWhitespace(text, minimize) ==
    LET lines == SplitLines(collapseSpaces(text, 1, Len(text)))
    IN IF minimize
       THEN TrimSpace(JoinLines(squeezeEmptyLines(emptyBlankLines(lines))))
       ELSE TrimSpace(JoinLines(mergeBlankPairs(lines)))

\* ^(Chapter|CHAPTER|Ch\.|CH\.)\s*\d+
chapterPattern(line) ==
    LET prefix == ReLit(line, {1}, "Chapter") \cup ReLit(line, {1}, "CHAPTER")
                    \cup ReLit(line, {1}, "Ch.") \cup ReLit(line, {1}, "CH.")
    IN RePlus(line, ReStar(line, prefix, SpaceChars), Digits) # {}

\* ^[A-Z][A-Z\s]{10,}$
sectionPattern(line) ==
    LET upper == {UpperLetters[n] : n \in 1..26}
    IN /\ Len(line) >= 11
       /\ Char(line, 1) \in upper
       /\ \A k \in 2..Len(line) : Char(line, k) \in upper \cup SpaceChars

\* processChapters: processed after the loop has taken the first n lines
RECURSIVE processedLines(_, _)
processedLines(lines, n) ==
    IF n = 0 THEN <<>>
    ELSE LET processed == processedLines(lines, n - 1)
             line == TrimSpace(lines[n])
             separated ==
                 IF Len(processed) > 0 /\ processed[Len(processed)] # ""
                 THEN Append(processed, "")
                 ELSE processed
         IN IF line = "" THEN Append(processed, "")
            ELSE IF chapterPattern(line) THEN separated \o <<line, "">>
            ELSE IF isTimeSpan(line) THEN separated \o <<line, "">>
            ELSE IF sectionPattern(line) /\ Len(line) < 100
            THEN processed \o <<"", line, "">>
            ELSE Append(processed, line)

\* TextProcessor.processChapters
processChapters(text) ==
    LET lines == SplitLines(text)
    IN JoinLines(processedLines(lines, Len(lines)))

\* TextProcessor.ProcessText, with options.ConvertToHTML false
ProcessText(text, minimize) ==
    IF text = "" THEN text
    ELSE processChapters(normalizeWhitespace(
             removeBookArtifacts(basicCleanup(text)), minimize))

\* html.EscapeString, one character
EscapeChar(c) ==
    IF c = "&" THEN "&amp;"
    ELSE IF c = "<" THEN "&lt;"
    ELSE IF c = ">" THEN "&gt;"
    ELSE IF c = "\"" THEN "&#34;"
    ELSE IF c = "'" THEN "&#39;"
    ELSE c

\* html.EscapeString
RECURSIVE EscapeString(_)
EscapeString(s) ==
    IF Len(s) = 0 THEN ""
    ELSE IF Len(s) = 1 THEN EscapeChar(s)
    ELSE LET mid == Len(s) \div 2
         IN EscapeString(SubSeq(s, 1, mid)) \o EscapeString(SubSeq(s, mid + 1, Len(s)))

\* TextProcessor.isHeader
isHeader(line) ==
    /\ Len(line) <= 100
    /\ \/ chapterPattern(line)
       \/ isTimeSpan(line)
       \/ (ToUpper(line) = line /\ Len(line) > 5)

\* convertToHTML: htmlLines and inParagraph after the first n lines
RECURSIVE htmlLines(_, _)
htmlLines(lines, n) ==
    IF n = 0 THEN [out |-> <<>>, inParagraph |-> FALSE]
    ELSE LET before == htmlLines(lines, n - 1)
             line == TrimSpace(lines[n])
             closed == IF before.inParagraph THEN Append(before.out, "</p>")
                       ELSE before.out
             opened == IF before.inParagraph THEN before.out
                       ELSE Append(before.out, "<p>")
         IN IF line = "" THEN [out |-> closed, inParagraph |-> FALSE]
            ELSE IF isHeader(line)
            THEN [out |-> Append(closed, "<h2>" \o line \o "</h2>"),
                  inParagraph |-> FALSE]
            ELSE [out |-> Append(opened, line \o "<br/>"), inParagraph |-> TRUE]

\* TextProcessor.convertToHTML
convertToHTML(text) ==
    LET lines == SplitLines(EscapeString(text))
        done == htmlLines(lines, Len(lines))
    IN JoinLines(IF done.inParagraph THEN Append(done.out, "</p>") ELSE done.out)

\* ProcessText with options.ConvertToHTML set
ProcessTextHTML(text, minimize) ==
    IF text = "" THEN text ELSE convertToHTML(ProcessText(text, minimize))

\* ProcessText is called on tpText.
CleanStep ==
    /\ pc = "clean"
    /\ tpOut' = ProcessText(tpText, tpMinimize)
    /\ pc' = "cleaned"
    /\ UNCHANGED <<tpText, tpMinimize, tpAgain, segVars, procVars, callVars, convVars>>
    /\ UNCHANGED <<cleanTextVars, timeSpanVars, poolVars>>

\* ProcessText is called on what it returned.
CleanAgainStep ==
    /\ pc = "cleaned"
    /\ tpAgain' = ProcessText(tpOut, tpMinimize)
    /\ pc' = "recleaned"
    /\ UNCHANGED <<tpText, tpMinimize, tpOut, segVars, procVars, callVars, convVars>>
    /\ UNCHANGED <<cleanTextVars, timeSpanVars, poolVars>>

(***************************************************************************)
(* Converter.groupPagesIntoChapters                                        *)
(***************************************************************************)
\* the page cap one too large
maxPagesPerChapter_OffByOne == 15 + 1

maxPagesPerChapter == 15

minTextPerChapter == 800

\* firstLine := strings.TrimSpace(strings.Split(strings.TrimSpace(page.Text), "\n")[0])
firstLineOf(page) == TrimSpace(FirstLine(TrimSpace(page.Text)))

\* the marker test without the time spans
startsWithMarker_KeywordOnly(page) ==
    Contains(ToLower(firstLineOf(page)), "chapter")

\* The marker test on the first line of a page.
startsWithMarker(page) ==
    \/ isTimeSpanChapterMarker(firstLineOf(page))
    \/ Contains(ToLower(firstLineOf(page)), "chapter")

\* isChapterBreak, computed before the page is appended
isChapterBreak(page, current) ==
    page.HasText /\ Len(current) > 0 /\ startsWithMarker(page)

\* currentTextLength after the page is appended
addTextLength(textLength, page) ==
    IF page.HasText THEN textLength + Len(page.Text) ELSE textLength

\* the break taken on any trigger, whatever the chapter holds
breakHere_Unguarded(marker, current, textLength, idx) ==
    \/ marker
    \/ Len(current) >= maxPagesPerChapter
    \/ textLength >= minTextPerChapter

\* the break without the trigger on the accumulated text
breakHere_NoTextTrigger(marker, current, textLength, idx) ==
    /\ \/ marker
       \/ Len(current) >= maxPagesPerChapter
    /\ idx > 0
    /\ Len(current) > 1

\* shouldBreak && i > 0 && len(currentChapter) > 1, after the page is appended
breakHere(marker, current, textLength, idx) ==
    /\ \/ marker
       \/ Len(current) >= maxPagesPerChapter
       \/ (textLength >= minTextPerChapter /\ Len(current) >= 3)
    /\ idx > 0
    /\ Len(current) > 1

\* One iteration of the loop over the pages.
GroupStep ==
    /\ pc = "group"
    /\ i < Len(pages)
    /\ LET page == pages[i + 1]
           marker == isChapterBreak(page, currentChapter)
           current == Append(currentChapter, page)
           textLength == addTextLength(currentTextLength, page)
       IN IF breakHere(marker, current, textLength, i)
          THEN /\ chapters' = Append(chapters, current)
               /\ currentChapter' = <<>>
               /\ currentTextLength' = 0
          ELSE /\ chapters' = chapters
               /\ currentChapter' = current
               /\ currentTextLength' = textLength
    /\ i' = i + 1
    /\ UNCHANGED <<pc, pages, procVars, callVars, textVars, convVars>>
    /\ UNCHANGED <<cleanTextVars, timeSpanVars, poolVars>>

\* the return without the remaining pages
finalChapters_RestDropped(all, done, current) ==
    IF Len(done) = 0 THEN <<all>> ELSE done

\* What the function returns once the loop is over.
finalChapters(all, done, current) ==
    LET withRest == IF Len(current) > 0 THEN Append(done, current) ELSE done
    IN IF Len(withRest) = 0 THEN <<all>> ELSE withRest

\* After the loop: the remaining pages, the fallback, the return.
GroupReturn ==
    /\ pc = "group"
    /\ i = Len(pages)
    /\ chapters' = finalChapters(pages, chapters, currentChapter)
    /\ pc' = "grouped"
    /\ UNCHANGED <<pages, i, currentChapter, currentTextLength, procVars, callVars, textVars, convVars>>
    /\ UNCHANGED <<cleanTextVars, timeSpanVars, poolVars>>

(***************************************************************************)
(* NewPDFProcessor: the image page ranges and the skip list are parsed     *)
(* from the strings of the options.                                        *)
(***************************************************************************)
\* strings.Split(s, sep), sep one character
Split(s, sep) ==
    LET at == {k \in 1..Len(s) : Char(s, k) = sep}
        cut == at \cup {0, Len(s) + 1}
        Nth(n) == CHOOSE k \in cut : Cardinality({j \in cut : j < k}) = n
    IN [n \in 1..(Cardinality(at) + 1) |-> SubSeq(s, Nth(n - 1) + 1, Nth(n) - 1)]

DigitChars == <<"0", "1", "2", "3", "4", "5", "6", "7", "8", "9">>

\* int(char - '0')
DigitValue(c) == (CHOOSE n \in 1..10 : DigitChars[n] = c) - 1

\* pageNum = pageNum*10 + int(char-'0'), over the characters of s
RECURSIVE DigitsValue(_)
DigitsValue(s) ==
    IF Len(s) = 0 THEN 0
    ELSE DigitsValue(SubSeq(s, 1, Len(s) - 1)) * 10 + DigitValue(Char(s, Len(s)))

\* strconv.Atoi: an optional sign, then digits
Atoi(s) ==
    LET signed == Len(s) > 0 /\ Char(s, 1) \in {"+", "-"}
        body == IF signed THEN SubSeq(s, 2, Len(s)) ELSE s
        ok == Len(body) > 0 /\ \A k \in 1..Len(body) : IsDigit(Char(body, k))
    IN [ok |-> ok,
        n |-> IF ~ok THEN 0
              ELSE IF Char(s, 1) = "-" THEN 0 - DigitsValue(body)
              ELSE DigitsValue(body)]

\* fmt: %d of an integer
RECURSIVE Itoa(_)
Itoa(n) ==
    IF n < 0 THEN "-" \o Itoa(0 - n)
    ELSE IF n < 10 THEN DigitChars[n + 1]
    ELSE Itoa(n \div 10) \o DigitChars[(n % 10) + 1]

\* a nil error
NoError == [msg |-> "", args |-> <<>>]

\* fmt.Errorf(format, args...): the message and the operands formatted into it
Errorf(msg, args) == [msg |-> msg, args |-> args]

\* fmt.Errorf(prefix + "%w", err)
Wrap(prefix, err) == [msg |-> prefix \o err.msg, args |-> err.args]

\* ParsePageRanges: one part of the string, trimmed and not empty
parseRangePart(part) ==
    IF Contains(part, "-")
    THEN LET rangeParts == Split(part, "-")
             start == Atoi(TrimSpace(rangeParts[1]))
             end == Atoi(TrimSpace(rangeParts[2]))
         IN IF Len(rangeParts) # 2
            THEN [range |-> <<>>,
                  err |-> Errorf("invalid range format: " \o part, <<part>>)]
            ELSE IF ~start.ok
            THEN [range |-> <<>>,
                  err |-> Errorf("invalid start page: " \o rangeParts[1],
                                 <<rangeParts[1]>>)]
            ELSE IF ~end.ok
            THEN [range |-> <<>>,
                  err |-> Errorf("invalid end page: " \o rangeParts[2],
                                 <<rangeParts[2]>>)]
            ELSE IF start.n > end.n
            THEN [range |-> <<>>,
                  err |-> Errorf("start page (" \o Itoa(start.n)
                                   \o ") cannot be greater than end page ("
                                   \o Itoa(end.n) \o ")",
                                 <<Itoa(start.n), Itoa(end.n)>>)]
            ELSE [range |-> <<[Start |-> start.n, End |-> end.n]>>, err |-> NoError]
    ELSE LET page == Atoi(part)
         IN IF ~page.ok
            THEN [range |-> <<>>,
                  err |-> Errorf("invalid page number: " \o part, <<part>>)]
            ELSE [range |-> <<[Start |-> page.n, End |-> page.n]>>, err |-> NoError]

\* ParsePageRanges: the loop over the parts, from part n on
RECURSIVE parseRangeParts(_, _, _)
parseRangeParts(parts, n, ranges) ==
    IF n > Len(parts) THEN [ranges |-> ranges, err |-> NoError]
    ELSE LET part == TrimSpace(parts[n])
         IN IF part = "" THEN parseRangeParts(parts, n + 1, ranges)
            ELSE LET r == parseRangePart(part)
                 IN IF r.err # NoError THEN [ranges |-> <<>>, err |-> r.err]
                    ELSE parseRangeParts(parts, n + 1, ranges \o r.range)

ParsePageRanges(rangeStr) ==
    IF rangeStr = "" THEN [ranges |-> <<>>, err |-> NoError]
    ELSE parseRangeParts(Split(rangeStr, ","), 1, <<>>)

\* PageRangeSet.Contains, as the set of the pages it holds for
RangePages(ranges) ==
    UNION {ranges[k].Start..ranges[k].End : k \in 1..Len(ranges)}

\* PageRangeSet.ValidateAgainstTotal, from range n on
RECURSIVE validateFrom(_, _, _)
validateFrom(ranges, n, totalPages) ==
    IF n > Len(ranges) THEN NoError
    ELSE IF ranges[n].Start < 1
    THEN Errorf("page numbers must be 1 or greater, got: " \o Itoa(ranges[n].Start),
                <<Itoa(ranges[n].Start)>>)
    ELSE IF ranges[n].End > totalPages
    THEN Errorf("page " \o Itoa(ranges[n].End) \o " exceeds total pages ("
                  \o Itoa(totalPages) \o ")",
                <<Itoa(ranges[n].End), Itoa(totalPages)>>)
    ELSE validateFrom(ranges, n + 1, totalPages)

ValidateAgainstTotal(ranges, totalPages) == validateFrom(ranges, 1, totalPages)

\* parseSkipPages: one entry of the string, trimmed and not empty
parseSkipPage(pageStr) ==
    IF \E k \in 1..Len(pageStr) : ~IsDigit(Char(pageStr, k))
    THEN [pageNum |-> 0,
          err |-> Errorf("invalid page number: " \o pageStr, <<pageStr>>)]
    ELSE IF DigitsValue(pageStr) <= 0
    THEN [pageNum |-> 0,
          err |-> Errorf("page number must be positive: " \o pageStr, <<pageStr>>)]
    ELSE [pageNum |-> DigitsValue(pageStr), err |-> NoError]

\* parseSkipPages: the loop over the entries, from entry n on
RECURSIVE parseSkipEntries(_, _, _)
parseSkipEntries(pageStrs, n, skip) ==
    IF n > Len(pageStrs) THEN [skipPages |-> skip, err |-> NoError]
    ELSE LET pageStr == TrimSpace(pageStrs[n])
         IN IF pageStr = "" THEN parseSkipEntries(pageStrs, n + 1, skip)
            ELSE LET r == parseSkipPage(pageStr)
                 IN IF r.err # NoError THEN [skipPages |-> {}, err |-> r.err]
                    ELSE parseSkipEntries(pageStrs, n + 1, skip \cup {r.pageNum})

parseSkipPages(skipPagesStr) ==
    IF skipPagesStr = "" THEN [skipPages |-> {}, err |-> NoError]
    ELSE parseSkipEntries(Split(skipPagesStr, ","), 1, {})

\* NewPDFProcessor: the processor's page options, or the error. The file is
\* read and the PDF library started between the parsing and the validation.
NewPDFProcessor(imagePageRangeStr, skipPagesStr, total) ==
    LET parsed == ParsePageRanges(imagePageRangeStr)
        skip == parseSkipPages(skipPagesStr)
        valid == ValidateAgainstTotal(parsed.ranges, total)
        none == [imagePageRange |-> {}, skipPages |-> {}, err |-> NoError]
    IN IF parsed.err # NoError
       THEN [none EXCEPT !.err = Wrap("failed to parse image page ranges: ", parsed.err)]
       ELSE IF skip.err # NoError
       THEN [none EXCEPT !.err = Wrap("failed to parse skip pages: ", skip.err)]
       ELSE IF valid # NoError
       THEN [none EXCEPT !.err = Wrap("invalid page range: ", valid)]
       ELSE [imagePageRange |-> RangePages(parsed.ranges),
             skipPages |-> skip.skipPages, err |-> NoError]

(***************************************************************************)
(* Converter.Convert: the processor is made, the pages are processed, the  *)
(* EPUB is generated from them.                                            *)
(***************************************************************************)
\* the check of the page list left out
noPages_Never(list) == FALSE

\* len(pages) == 0
noPages(list) == Len(list) = 0

\* Converter.initialize: NewPDFProcessor with the options of the run.
Initialize ==
    /\ pc = "init"
    /\ \E made \in {NewPDFProcessor(options.ImagePageRange, options.SkipPages,
                                       Len(doc))} :
          IF made.err # NoError
          THEN /\ convErr' = Wrap("initialization failed: failed to create PDF processor: ",
                                  made.err)
               /\ pc' = "done"
               /\ UNCHANGED <<enableOCR, skipPages, imagePageRange, outPages>>
          ELSE /\ imagePageRange' = made.imagePageRange
               /\ skipPages' = made.skipPages
               /\ enableOCR' = options.EnableOCR
               /\ outPages' = [k \in 1..Len(doc) |-> ZeroPage]
               /\ pc' = "process"
               /\ UNCHANGED convErr
    /\ UNCHANGED <<doc, rejectedPages, pageIdx, ctxDone, result, segVars, callVars,
                   textVars, options, genErr, stats, sections, chapterIdx, acPages,
                   acErr>>
    /\ UNCHANGED <<cleanTextVars, timeSpanVars, poolVars>>

\* Convert: ProcessPages has returned.
ConvertPages ==
    /\ pc = "processed"
    /\ IF result.err # ""
       THEN /\ convErr' = Errorf("PDF processing failed: " \o result.err,
                                  IF result.page > 0 THEN <<Itoa(result.page)>>
                                  ELSE <<>>)
            /\ pc' = "done"
            /\ UNCHANGED <<pages, stats>>
       ELSE /\ pages' = result.pages
            /\ stats' = [stats EXCEPT !.PageCount = Len(result.pages),
                                      !.ProcessedPages = Len(result.pages)]
            /\ pc' = "generate"
            /\ UNCHANGED convErr
    /\ UNCHANGED <<i, chapters, currentChapter, currentTextLength, procVars, callVars,
                   textVars, options, genErr, sections, chapterIdx, acPages, acErr>>
    /\ UNCHANGED <<cleanTextVars, timeSpanVars, poolVars>>

\* generateEPUB: the check of the page list, the entry of groupPagesIntoChapters.
GenerateStart ==
    /\ pc = "generate"
    /\ IF noPages(pages)
       THEN /\ genErr' = Errorf("no pages to convert", <<>>)
            /\ pc' = "generated"
       ELSE /\ genErr' = genErr
            /\ pc' = "group"
    /\ i' = 0
    /\ chapters' = <<>>
    /\ currentChapter' = <<>>
    /\ currentTextLength' = 0
    /\ chapterIdx' = 0
    /\ UNCHANGED <<pages, procVars, callVars, textVars, options, convErr, stats,
                   sections, acPages, acErr>>
    /\ UNCHANGED <<cleanTextVars, timeSpanVars, poolVars>>

\* AddChapter: the processed text of the pages that have text
RECURSIVE chapterText(_, _)
chapterText(chapterPages, n) ==
    IF n = 0 THEN ""
    ELSE LET page == chapterPages[n]
             processedText == ProcessTextHTML(page.Text, TRUE)
         IN chapterText(chapterPages, n - 1)
              \o (IF page.HasText /\ processedText # ""
                  THEN processedText \o "\n\n" ELSE "")

\* EPUBGenerator.createHTMLContent
createHTMLContent(title, content) ==
    IF title = "Chapter" THEN content
    ELSE "<h1>" \o title \o "</h1>\n" \o content

\* EPUBGenerator.AddChapter: the sections afterwards, and the error
AddChapter(title, chapterPages, added) ==
    LET allText == chapterText(chapterPages, Len(chapterPages))
        content == IF allText = "" THEN "<p>No text content found on these pages.</p>"
                   ELSE allText
    IN IF noPages(chapterPages)
       THEN [sections |-> added,
             err |-> Errorf("no pages provided for chapter '" \o title \o "'",
                            <<title>>)]
       ELSE [sections |-> Append(added, [title |-> title,
                                         body |-> createHTMLContent(title, content)]),
             err |-> NoError]

\* the sum of len(page.Text) over the pages of a chapter
RECURSIVE textChars(_, _)
textChars(chapterPages, n) ==
    IF n = 0 THEN 0 ELSE textChars(chapterPages, n - 1) + Len(chapterPages[n].Text)

\* generateEPUB: one iteration of the loop over the chapters.
AddChapterStep ==
    /\ pc = "grouped"
    /\ chapterIdx < Len(chapters)
    /\ \E chapter \in {chapters[chapterIdx + 1]} :
       \E r \in {AddChapter("Chapter " \o Itoa(chapterIdx + 1), chapter, sections)} :
          IF r.err # NoError
          THEN /\ genErr' = Wrap("failed to add chapter " \o Itoa(chapterIdx + 1) \o ": ",
                                 r.err)
               /\ pc' = "generated"
               /\ UNCHANGED <<sections, stats, chapterIdx>>
          ELSE /\ sections' = r.sections
               /\ stats' = [stats EXCEPT
                               !.TextCharCount = @ + textChars(chapter, Len(chapter)),
                               !.ChapterCount = @ + 1]
               /\ chapterIdx' = chapterIdx + 1
               /\ UNCHANGED <<pc, genErr>>
    /\ UNCHANGED <<segVars, procVars, callVars, textVars, options, convErr, acPages,
                   acErr>>
    /\ UNCHANGED <<cleanTextVars, timeSpanVars, poolVars>>

\* generateEPUB: every chapter is added, the EPUB (which has a title) is valid.
GenerateReturn ==
    /\ pc = "grouped"
    /\ chapterIdx = Len(chapters)
    /\ genErr' = NoError
    /\ pc' = "generated"
    /\ UNCHANGED <<segVars, procVars, callVars, textVars, options, convErr, stats,
                   sections, chapterIdx, acPages, acErr>>
    /\ UNCHANGED <<cleanTextVars, timeSpanVars, poolVars>>

\* Convert: generateEPUB has returned.
ConvertReturn ==
    /\ pc = "generated"
    /\ convErr' = IF genErr # NoError THEN Wrap("EPUB generation failed: ", genErr)
                  ELSE NoError
    /\ pc' = "done"
    /\ UNCHANGED <<segVars, procVars, callVars, textVars, options, genErr, stats,
                   sections, chapterIdx, acPages, acErr>>
    /\ UNCHANGED <<cleanTextVars, timeSpanVars, poolVars>>

\* One call of EPUBGenerator.AddChapter, after generateEPUB.
AddChapterCall ==
    /\ pc = "generated"
    /\ \E r \in {AddChapter("Chapter 1", acPages, sections)} :
          /\ sections' = r.sections
          /\ acErr' = r.err
    /\ pc' = "added"
    /\ UNCHANGED <<segVars, procVars, callVars, textVars, options, convErr, genErr,
                   stats, chapterIdx, acPages>>
    /\ UNCHANGED <<cleanTextVars, timeSpanVars, poolVars>>

(***************************************************************************)
(* worker.Pool.  The client calls Start and then Stop or ForceStop; one    *)
(* goroutine calls Submit for the jobs 1..numJobs, one after the other;    *)
(* one goroutine receives from Results().  A send on a closed channel      *)
(* panics, which ends the program: panicked names the channel.             *)
(***************************************************************************)
notPoolVars ==
    <<pc, segVars, procVars, callVars, textVars, convVars, cleanTextVars, timeSpanVars>>

\* make(chan Job, workerCount*2), make(chan Result, workerCount*2)
capacity(count) == count * 2

\* a send on the channel can proceed: there is room, or the channel is closed
\* and the send panics
canSend(ch, closed, count) == closed \/ Len(ch) < capacity(count)

\* p.ctx.Err() once the context is cancelled
ctxErr == "context canceled"

\* Result{JobID, Error}
Result(job, err) == [JobID |-> job, Error |-> err]

\* wg.Wait() that returns at once
waitReturns_AtOnce(count) == TRUE

\* wg.Wait() returns
waitReturns(count) == count = 0

\* Pool.Start
Start ==
    /\ poolPc = "new"
    /\ wg' = workerCount
    /\ workerPc' = [w \in 1..workerCount |-> "select"]
    /\ poolPc' = "started"
    /\ UNCHANGED <<workerCount, numJobs, jobs, jobsClosed, results, resultsClosed,
                   poolCtxDone, workerJob, submitPc, submitted, afterSubmits,
                   processedJobs, processedBy, sent, received, panicked, notPoolVars>>

\* Pool.Submit: the select.  The send on p.jobs is taken when it can proceed,
\* the case <-p.ctx.Done() when the context is cancelled, either when both.
Submit ==
    /\ panicked = ""
    /\ poolPc # "new"
    /\ submitPc = "select"
    /\ submitted < numJobs
    /\ \/ /\ canSend(jobs, jobsClosed, workerCount)
          /\ IF jobsClosed
             THEN /\ panicked' = "jobs"
                  /\ UNCHANGED <<jobs, submitted>>
             ELSE /\ jobs' = Append(jobs, submitted + 1)
                  /\ submitted' = submitted + 1
                  /\ UNCHANGED panicked
          /\ UNCHANGED submitPc
       \/ /\ poolCtxDone
          /\ submitPc' = "report"
          /\ UNCHANGED <<jobs, submitted, panicked>>
    /\ UNCHANGED <<workerCount, numJobs, poolPc, jobsClosed, results, resultsClosed,
                   poolCtxDone, wg, workerPc, workerJob, afterSubmits, processedJobs, processedBy,
                   sent, received, notPoolVars>>

\* Pool.Submit: p.results <- Result{JobID: job.ID(), Error: p.ctx.Err()}
SubmitReport ==
    /\ panicked = ""
    /\ submitPc = "report"
    /\ canSend(results, resultsClosed, workerCount)
    /\ IF resultsClosed
       THEN /\ panicked' = "results"
            /\ UNCHANGED <<results, sent, submitted, submitPc>>
       ELSE /\ results' = Append(results, Result(submitted + 1, ctxErr))
            /\ sent' = sent (+) SetToBag({Result(submitted + 1, ctxErr)})
            /\ submitted' = submitted + 1
            /\ submitPc' = "select"
            /\ UNCHANGED panicked
    /\ UNCHANGED <<workerCount, numJobs, poolPc, jobs, jobsClosed, resultsClosed,
                   poolCtxDone, wg, workerPc, workerJob, afterSubmits, processedJobs, processedBy,
                   received, notPoolVars>>

\* Pool.worker: case job, ok := <-p.jobs with a job
WorkerReceive(w) ==
    /\ panicked = ""
    /\ workerPc[w] = "select"
    /\ Len(jobs) > 0
    /\ workerJob' = [workerJob EXCEPT ![w] = Head(jobs)]
    /\ jobs' = Tail(jobs)
    /\ workerPc' = [workerPc EXCEPT ![w] = "process"]
    /\ UNCHANGED <<workerCount, numJobs, poolPc, jobsClosed, results, resultsClosed,
                   poolCtxDone, wg, submitPc, submitted, afterSubmits, processedJobs, processedBy,
                   sent, received, panicked, notPoolVars>>

\* Pool.worker: the channel is closed and empty, the worker returns
WorkerJobsClosed(w) ==
    /\ panicked = ""
    /\ workerPc[w] = "select"
    /\ Len(jobs) = 0 /\ jobsClosed
    /\ workerPc' = [workerPc EXCEPT ![w] = "returned"]
    /\ wg' = wg - 1
    /\ UNCHANGED <<workerCount, numJobs, poolPc, jobs, jobsClosed, results,
                   resultsClosed, poolCtxDone, workerJob, submitPc, submitted,
                   afterSubmits, processedJobs, processedBy, sent, received, panicked, notPoolVars>>

\* Pool.worker: case <-p.ctx.Done(), the worker returns
WorkerCancelled(w) ==
    /\ panicked = ""
    /\ workerPc[w] = "select"
    /\ poolCtxDone
    /\ workerPc' = [workerPc EXCEPT ![w] = "returned"]
    /\ wg' = wg - 1
    /\ UNCHANGED <<workerCount, numJobs, poolPc, jobs, jobsClosed, results,
                   resultsClosed, poolCtxDone, workerJob, submitPc, submitted,
                   afterSubmits, processedJobs, processedBy, sent, received, panicked, notPoolVars>>

\* Pool.worker: err := job.Process(p.ctx)
WorkerProcess(w) ==
    /\ panicked = ""
    /\ workerPc[w] = "process"
    /\ processedJobs' = processedJobs (+) SetToBag({workerJob[w]})
    /\ processedBy' = processedBy \cup {w}
    /\ workerPc' = [workerPc EXCEPT ![w] = "send"]
    /\ UNCHANGED <<workerCount, numJobs, poolPc, jobs, jobsClosed, results,
                   resultsClosed, poolCtxDone, wg, workerJob, submitPc, submitted,
                   afterSubmits, sent, received, panicked, notPoolVars>>

\* Pool.worker: p.results <- Result{JobID: job.ID(), Error: err}
WorkerSend(w) ==
    /\ panicked = ""
    /\ workerPc[w] = "send"
    /\ canSend(results, resultsClosed, workerCount)
    /\ IF resultsClosed
       THEN /\ panicked' = "results"
            /\ UNCHANGED <<results, sent, workerPc, workerJob>>
       ELSE /\ results' = Append(results, Result(workerJob[w], ""))
            /\ sent' = sent (+) SetToBag({Result(workerJob[w], "")})
            /\ workerPc' = [workerPc EXCEPT ![w] = "select"]
            /\ workerJob' = [workerJob EXCEPT ![w] = 0]
            /\ UNCHANGED panicked
    /\ UNCHANGED <<workerCount, numJobs, poolPc, jobs, jobsClosed, resultsClosed,
                   poolCtxDone, wg, submitPc, submitted, afterSubmits,
                   processedJobs, processedBy, received, notPoolVars>>

\* Pool.Stop: close(p.jobs)
StopCloseJobs ==
    /\ panicked = ""
    /\ poolPc = "started"
    /\ jobsClosed' = TRUE
    /\ afterSubmits' = (submitted = numJobs)
    /\ poolPc' = "stopWait"
    /\ UNCHANGED <<workerCount, numJobs, jobs, results, resultsClosed, poolCtxDone,
                   wg, workerPc, workerJob, submitPc, submitted, processedJobs, processedBy, sent,
                   received, panicked, notPoolVars>>

\* Pool.Stop: p.wg.Wait()
StopWait ==
    /\ panicked = ""
    /\ poolPc = "stopWait"
    /\ waitReturns(wg)
    /\ poolPc' = "stopCloseResults"
    /\ UNCHANGED <<workerCount, numJobs, jobs, jobsClosed, results, resultsClosed,
                   poolCtxDone, wg, workerPc, workerJob, submitPc, submitted,
                   afterSubmits, processedJobs, processedBy, sent, received, panicked, notPoolVars>>

\* Pool.Stop: close(p.results)
StopCloseResults ==
    /\ panicked = ""
    /\ poolPc = "stopCloseResults"
    /\ resultsClosed' = TRUE
    /\ poolPc' = "stopCancel"
    /\ UNCHANGED <<workerCount, numJobs, jobs, jobsClosed, results, poolCtxDone,
                   wg, workerPc, workerJob, submitPc, submitted, afterSubmits,
                   processedJobs, processedBy, sent, received, panicked, notPoolVars>>

\* Pool.Stop: p.cancel(), and Stop returns
StopCancel ==
    /\ panicked = ""
    /\ poolPc = "stopCancel"
    /\ poolCtxDone' = TRUE
    /\ poolPc' = "stopped"
    /\ UNCHANGED <<workerCount, numJobs, jobs, jobsClosed, results, resultsClosed,
                   wg, workerPc, workerJob, submitPc, submitted, afterSubmits,
                   processedJobs, processedBy, sent, received, panicked, notPoolVars>>

\* Pool.ForceStop: p.cancel()
ForceStopCancel ==
    /\ panicked = ""
    /\ poolPc = "started"
    /\ poolCtxDone' = TRUE
    /\ afterSubmits' = (submitted = numJobs)
    /\ poolPc' = "forceCloseJobs"
    /\ UNCHANGED <<workerCount, numJobs, jobs, jobsClosed, results, resultsClosed,
                   wg, workerPc, workerJob, submitPc, submitted, processedJobs, processedBy, sent,
                   received, panicked, notPoolVars>>

\* Pool.ForceStop: close(p.jobs)
ForceStopCloseJobs ==
    /\ panicked = ""
    /\ poolPc = "forceCloseJobs"
    /\ jobsClosed' = TRUE
    /\ poolPc' = "forceWait"
    /\ UNCHANGED <<workerCount, numJobs, jobs, results, resultsClosed, poolCtxDone,
                   wg, workerPc, workerJob, submitPc, submitted, afterSubmits,
                   processedJobs, processedBy, sent, received, panicked, notPoolVars>>

\* Pool.ForceStop: p.wg.Wait()
ForceStopWait ==
    /\ panicked = ""
    /\ poolPc = "forceWait"
    /\ waitReturns(wg)
    /\ poolPc' = "forceCloseResults"
    /\ UNCHANGED <<workerCount, numJobs, jobs, jobsClosed, results, resultsClosed,
                   poolCtxDone, wg, workerPc, workerJob, submitPc, submitted,
                   afterSubmits, processedJobs, processedBy, sent, received, panicked, notPoolVars>>

\* Pool.ForceStop: close(p.results), and ForceStop returns
ForceStopCloseResults ==
    /\ panicked = ""
    /\ poolPc = "forceCloseResults"
    /\ resultsClosed' = TRUE
    /\ poolPc' = "forceStopped"
    /\ UNCHANGED <<workerCount, numJobs, jobs, jobsClosed, results, poolCtxDone,
                   wg, workerPc, workerJob, submitPc, submitted, afterSubmits,
                   processedJobs, processedBy, sent, received, panicked, notPoolVars>>

\* The goroutine that ranges over Results() receives a result.
ReceiveResult ==
    /\ panicked = ""
    /\ Len(results) > 0
    /\ received' = received (+) SetToBag({Head(results)})
    /\ results' = Tail(results)
    /\ UNCHANGED <<workerCount, numJobs, poolPc, jobs, jobsClosed, resultsClosed,
                   poolCtxDone, wg, workerPc, workerJob, submitPc, submitted,
                   afterSubmits, processedJobs, processedBy, sent, panicked, notPoolVars>>

(***************************************************************************)
(* The inputs the runs are drawn from.                                     *)
(***************************************************************************)
\* the longest page list of the long runs
MaxPages == 17

\* the longest page list over all the page texts
MaxLen == 3

\* the most pages of a document
MaxDocPages == 5

ProseLine == "the crew waited at the gate for boarding"

ShortText == ProseLine

\* about 200 characters
MidText == Repeat(ProseLine \o "\n", 4) \o ProseLine

\* more than minTextPerChapter characters
LongText == Repeat(ProseLine \o "\n", 19) \o ProseLine

ChapterText == "Chapter 2\n" \o MidText

TimeSpanText == "5-6am\n" \o MidText

\* page texts whose first line is a marker
MarkerTexts ==
    {ChapterText, TimeSpanText, "CHAPTER 7", "11pm-12am",
     "2.30-3.30pm\n" \o ShortText, "5:30 to 6:45PM\n" \o ShortText}

\* page texts whose first line is none
PlainTexts ==
    {"", ShortText, MidText, LongText, "at 5-6am we left\nChapter 2\n" \o ShortText,
     "Ch. 3\n" \o ShortText}

\* the pages ProcessPages returns for these texts
PagesOf(texts) == [k \in 1..Len(texts) |-> PDFPage(k, texts[k], PageTypeText)]

\* every page list of at most MaxLen pages
ShortLists == UNION {[1..n -> MarkerTexts \cup PlainTexts] : n \in 0..MaxLen}

\* the page lists of at most MaxPages pages that are one text throughout but
\* for at most two pages, which are another
LongLists ==
    UNION {{[k \in 1..n |-> IF k \in {p1, p2} THEN sp ELSE bg] :
               p1 \in 0..n, p2 \in 0..n,
               sp \in {ChapterText, "11pm-12am", LongText},
               bg \in {"", ShortText, MidText}} :
           n \in 0..MaxPages}

\* 20 pages of about 200 characters, "Chapter 2" opening page 10
ScenarioChapter == [k \in 1..20 |-> IF k = 10 THEN ChapterText ELSE MidText]

\* time spans opening pages 1, 6 and 12, prose elsewhere
ScenarioTimeSpans == [k \in 1..14 |-> IF k \in {1, 6, 12} THEN TimeSpanText ELSE MidText]

InitGroupVars ==
    /\ pages \in {PagesOf(t) : t \in ShortLists \cup LongLists
                                      \cup {ScenarioChapter, ScenarioTimeSpans}}
    /\ i = 0
    /\ chapters = <<>>
    /\ currentChapter = <<>>
    /\ currentTextLength = 0

IdleGroupVars ==
    /\ pages = <<>>
    /\ i = 0
    /\ chapters = <<>>
    /\ currentChapter = <<>>
    /\ currentTextLength = 0

\* the documents of at most MaxDocPages pages whose pages are alike but for
\* at most one
Documents ==
    UNION {{[k \in 1..n |-> IF k = q THEN v ELSE bg] :
               q \in 0..n, v \in PageSources,
               bg \in {Source(NoiseA, Prose56), Source(Prose60, Prose56),
                       Source("", "scanned title")}} :
           n \in 1..MaxDocPages}

\* the options of the run: skipPages and the image page ranges, of which
\* ValidateAgainstTotal lets through the pages the document has
PageOptions == {<<{}, {}>>, <<{2}, {1, 2}>>}

InitProcessVars ==
    /\ doc \in Documents
    /\ enableOCR \in BOOLEAN
    /\ \E opt \in PageOptions :
          /\ skipPages = opt[1]
          /\ imagePageRange = opt[2] \cap 1..Len(doc)
    /\ rejectedPages = <<>>
    /\ outPages = [k \in 1..Len(doc) |-> ZeroPage]
    /\ pageIdx = 0
    /\ ctxDone = FALSE
    /\ result = [pages |-> <<>>, err |-> "", page |-> 0]

IdleProcessVars ==
    /\ doc = <<>>
    /\ enableOCR = FALSE
    /\ skipPages = {}
    /\ imagePageRange = {}
    /\ rejectedPages = <<>>
    /\ outPages = <<>>
    /\ pageIdx = 0
    /\ ctxDone = FALSE
    /\ result = [pages |-> <<>>, err |-> "", page |-> 0]

NoResult == [isBleedThrough |-> FALSE, validated |-> [score |-> 0, isBleedThrough |-> FALSE],
             score |-> 0]

InitCallVars ==
    /\ callText \in CallTexts
    /\ callPage \in 1..2
    /\ callResult = NoResult
    /\ callAgain = NoResult

IdleCallVars ==
    /\ callText = ""
    /\ callPage = 1
    /\ callResult = NoResult
    /\ callAgain = NoResult

\* the most lines of a text given to ProcessText
MaxTextLines == 3

\* lines of a page text: page numbers, chapter markers in lower and in upper
\* case, a time span, a section header, prose
TextLines ==
    {"", "42", "- 42 -", "42.", "- - 42 -", "Chapter 1", "5-6am",
     "it was  late\r", "THE LONG SECTION HEADER", "CHAPTER 5"}

\* the texts of at most MaxTextLines of these lines
CleanTexts ==
    UNION {{JoinLines(ls) : ls \in [1..n -> TextLines]} : n \in 1..MaxTextLines}

InitTextVars ==
    /\ tpText \in CleanTexts
    /\ tpMinimize \in BOOLEAN
    /\ tpOut = ""
    /\ tpAgain = ""

IdleTextVars ==
    /\ tpText = ""
    /\ tpMinimize = FALSE
    /\ tpOut = ""
    /\ tpAgain = ""

\* the most characters of a text given to cleanText
MaxCleanLen == 4

\* the characters of these texts: a letter, blanks, the two line ends
CleanChars == <<"a", " ", "\t", "\n", "\r">>

\* the string of the characters cs
RECURSIVE StringOf(_)
StringOf(cs) ==
    IF Len(cs) = 0 THEN "" ELSE cs[1] \o StringOf(Tail(cs))

\* the inputs of TestCleanText
TestCleanTexts ==
    {"Hello\r\nWorld\r", "Line 1\r\nLine 2\rLine 3\n",
     "Paragraph 1\n\nParagraph 2\n\n\nParagraph 3",
     "  Spaced   Text  \n  More Text  ", "", "   \n  \n  "}

\* every text of at most MaxCleanLen of the characters, and the test's inputs
CleanTextInputs ==
    TestCleanTexts \cup
    UNION {{StringOf([k \in 1..n |-> CleanChars[f[k]]]) : f \in [1..n -> 1..Len(CleanChars)]} :
              n \in 0..MaxCleanLen}

InitCleanTextVars ==
    /\ ctText \in CleanTextInputs
    /\ ctOut = ""
    /\ ctAgain = ""

IdleCleanTextVars ==
    /\ ctText = ""
    /\ ctOut = ""
    /\ ctAgain = ""

\* the most digits of an hour in a line given to the time-span recognisers
MaxHourDigits == 3

\* hours of no digit up to MaxHourDigits digits
ClockHours == {SubSeq("1234567890", 1, n) : n \in 0..MaxHourDigits}

\* a clock time, whole or in part: an hour, minutes or none, am/pm or none
ClockTimes ==
    {h \o mm \o ap : h \in ClockHours, mm \in {"", ":30", ".30"}, ap \in {"", "am", "PM"}}

\* two of them with something between, white space before the line or none
TimeSpanLines ==
    {ws \o a \o sep \o b \o ws :
        ws \in {"", " "}, a \in ClockTimes, b \in ClockTimes,
        sep \in {"-", " to ", "TO", " - "}}

InitTimeSpanVars ==
    /\ tsLine \in TimeSpanLines
    /\ tsMarker = FALSE
    /\ tsSpan = FALSE

IdleTimeSpanVars ==
    /\ tsLine = ""
    /\ tsMarker = FALSE
    /\ tsSpan = FALSE

\* the most workers of a pool, and the most jobs submitted to it
MaxWorkers == 2

MaxJobs == 3

\* NewPool(workerCount), before Start
InitPoolVars ==
    /\ workerCount \in 1..MaxWorkers
    /\ numJobs \in 0..MaxJobs
    /\ poolPc = "new"
    /\ jobs = <<>>
    /\ jobsClosed = FALSE
    /\ results = <<>>
    /\ resultsClosed = FALSE
    /\ poolCtxDone = FALSE
    /\ wg = 0
    /\ workerPc = [w \in 1..workerCount |-> "new"]
    /\ workerJob = [w \in 1..workerCount |-> 0]
    /\ submitPc = "select"
    /\ submitted = 0
    /\ afterSubmits = FALSE
    /\ processedJobs = EmptyBag
    /\ processedBy = {}
    /\ sent = EmptyBag
    /\ received = EmptyBag
    /\ panicked = ""

IdlePoolVars ==
    /\ workerCount = 0
    /\ numJobs = 0
    /\ poolPc = ""
    /\ jobs = <<>>
    /\ jobsClosed = FALSE
    /\ results = <<>>
    /\ resultsClosed = FALSE
    /\ poolCtxDone = FALSE
    /\ wg = 0
    /\ workerPc = <<>>
    /\ workerJob = <<>>
    /\ submitPc = ""
    /\ submitted = 0
    /\ afterSubmits = FALSE
    /\ processedJobs = EmptyBag
    /\ processedBy = {}
    /\ sent = EmptyBag
    /\ received = EmptyBag
    /\ panicked = ""

\* the most pages of a document that Convert is run on
MaxRunPages == 3

ConvertDocuments == {d \in Documents : Len(d) <= MaxRunPages}

\* the image page ranges and the skip list as the operator may write them
OptionStrings ==
    {<<"", "">>, <<"1-2", "2">>, <<" 1 , 2-2", "2,">>,
     <<"x", "">>, <<"5-3", "">>, <<"1-2-3", "">>, <<"0", "">>, <<"-5", "">>,
     <<"2-", "">>, <<"1,2-x", "2">>,
     <<"", "x">>, <<"", "2-1">>, <<"", "1-2-3">>, <<"", "0">>, <<"1", "2,x2">>}

ZeroStats == [PageCount |-> 0, ProcessedPages |-> 0, ChapterCount |-> 0,
              TextCharCount |-> 0]

IdleConvVars ==
    /\ options = [ImagePageRange |-> "", SkipPages |-> "", EnableOCR |-> FALSE]
    /\ convErr = NoError
    /\ genErr = NoError
    /\ stats = ZeroStats
    /\ sections = <<>>
    /\ chapterIdx = 0
    /\ acPages = <<>>
    /\ acErr = NoError

\* New(opts): the converter before Convert
InitConvertVars ==
    /\ doc \in ConvertDocuments
    /\ \E str \in OptionStrings, ocr \in BOOLEAN :
          options = [ImagePageRange |-> str[1], SkipPages |-> str[2], EnableOCR |-> ocr]
    /\ enableOCR = FALSE
    /\ skipPages = {}
    /\ imagePageRange = {}
    /\ rejectedPages = <<>>
    /\ outPages = <<>>
    /\ pageIdx = 0
    /\ ctxDone = FALSE
    /\ result = [pages |-> <<>>, err |-> "", page |-> 0]
    /\ convErr = NoError
    /\ genErr = NoError
    /\ stats = ZeroStats
    /\ sections = <<>>
    /\ chapterIdx = 0
    /\ acPages = <<>>
    /\ acErr = NoError

\* the most pages generateEPUB and AddChapter are called with
MaxEpubPages == 3

EpubTexts ==
    {"", "This is the first page of text content.",
     "This is the second page with more content.",
     "Chapter 2\nIt began at the gate.", "5-6am\nDawn at the gate.",
     "42\nA line after the page number.",
     "42\nChapter 2\nIt began at the gate."}

EpubPageLists == {PagesOf(t) : t \in UNION {[1..n -> EpubTexts] : n \in 0..MaxEpubPages}}

\* the statistics of a converter that has counted before
EarlierStats == [PageCount |-> 3, ProcessedPages |-> 3, ChapterCount |-> 3,
                 TextCharCount |-> 5000]

EarlierSections ==
    <<[title |-> "Chapter 1", body |-> "<h1>Chapter 1</h1>\n<p>\nearlier<br/>\n</p>\n\n"]>>

\* a converter with its EPUB generator, before generateEPUB and AddChapter
InitEpubVars ==
    /\ pages \in EpubPageLists
    /\ acPages \in {<<>>, PagesOf(<<"First page content.", "Second page content.">>)}
    /\ i = 0
    /\ chapters = <<>>
    /\ currentChapter = <<>>
    /\ currentTextLength = 0
    /\ \E earlier \in BOOLEAN :
          /\ stats = IF earlier THEN EarlierStats ELSE ZeroStats
          /\ sections = IF earlier THEN EarlierSections ELSE <<>>
    /\ options = [ImagePageRange |-> "", SkipPages |-> "", EnableOCR |-> FALSE]
    /\ convErr = NoError
    /\ genErr = NoError
    /\ chapterIdx = 0
    /\ acErr = NoError

(***************************************************************************)
(* The specifications: a run of ProcessPages (Spec), a run of              *)
(* groupPagesIntoChapters (SpecGroup), a classifier call and the same call *)
(* again (SpecCall), ProcessText and ProcessText on its result             *)
(* (SpecClean), a run of Convert (SpecConvert), generateEPUB followed by   *)
(* AddChapter (SpecEpub), cleanText and cleanText on its result            *)
(* (SpecCleanText), the two time-span recognisers on one line              *)
(* (SpecTimeSpan), the goroutines of a worker pool (SpecPool) and the same *)
(* goroutines under a fair scheduler (SpecPoolFair).                       *)
(***************************************************************************)
Init ==
    pc = "process" /\ InitProcessVars /\ IdleGroupVars /\ IdleCallVars /\ IdleTextVars
    /\ IdleConvVars /\ IdleCleanTextVars /\ IdleTimeSpanVars /\ IdlePoolVars

Next == ProcessStep \/ ProcessReturn \/ Cancel

Spec == Init /\ [][Next]_vars

InitGroup ==
    pc = "group" /\ InitGroupVars /\ IdleProcessVars /\ IdleCallVars /\ IdleTextVars
    /\ IdleConvVars /\ IdleCleanTextVars /\ IdleTimeSpanVars /\ IdlePoolVars

NextGroup == GroupStep \/ GroupReturn

SpecGroup == InitGroup /\ [][NextGroup]_vars

InitCall ==
    pc = "call" /\ InitCallVars /\ IdleProcessVars /\ IdleGroupVars /\ IdleTextVars
    /\ IdleConvVars /\ IdleCleanTextVars /\ IdleTimeSpanVars /\ IdlePoolVars

NextCall == ClassifierCall \/ ClassifierCallAgain

SpecCall == InitCall /\ [][NextCall]_vars

InitClean ==
    pc = "clean" /\ InitTextVars /\ IdleProcessVars /\ IdleGroupVars /\ IdleCallVars
    /\ IdleConvVars /\ IdleCleanTextVars /\ IdleTimeSpanVars /\ IdlePoolVars

NextClean == CleanStep \/ CleanAgainStep

SpecClean == InitClean /\ [][NextClean]_vars

InitConvert ==
    pc = "init" /\ InitConvertVars /\ IdleGroupVars /\ IdleCallVars /\ IdleTextVars /\ IdleCleanTextVars /\ IdleTimeSpanVars /\ IdlePoolVars

NextConvert ==
    \/ Initialize
    \/ ProcessStep
    \/ ProcessReturn
    \/ Cancel
    \/ ConvertPages
    \/ GenerateStart
    \/ GroupStep
    \/ GroupReturn
    \/ AddChapterStep
    \/ GenerateReturn
    \/ ConvertReturn

SpecConvert == InitConvert /\ [][NextConvert]_vars

InitEpub == pc = "generate" /\ InitEpubVars /\ IdleProcessVars /\ IdleCallVars /\ IdleTextVars /\ IdleCleanTextVars /\ IdleTimeSpanVars /\ IdlePoolVars

NextEpub ==
    \/ GenerateStart
    \/ GroupStep
    \/ GroupReturn
    \/ AddChapterStep
    \/ GenerateReturn
    \/ AddChapterCall

SpecEpub == InitEpub /\ [][NextEpub]_vars

InitCleanText ==
    pc = "cleanText" /\ InitCleanTextVars /\ IdleProcessVars /\ IdleGroupVars
    /\ IdleCallVars /\ IdleTextVars /\ IdleConvVars /\ IdleTimeSpanVars /\ IdlePoolVars

NextCleanText == CleanTextStep \/ CleanTextAgainStep

SpecCleanText == InitCleanText /\ [][NextCleanText]_vars

InitTimeSpan ==
    pc = "timeSpan" /\ InitTimeSpanVars /\ IdleProcessVars /\ IdleGroupVars
    /\ IdleCallVars /\ IdleTextVars /\ IdleConvVars /\ IdleCleanTextVars /\ IdlePoolVars

NextTimeSpan == TimeSpanMarkerCall \/ TimeSpanCall

SpecTimeSpan == InitTimeSpan /\ [][NextTimeSpan]_vars

InitPool ==
    pc = "pool" /\ InitPoolVars /\ IdleProcessVars /\ IdleGroupVars /\ IdleCallVars
    /\ IdleTextVars /\ IdleConvVars /\ IdleCleanTextVars /\ IdleTimeSpanVars

\* the steps of worker w
Worker(w) ==
    \/ WorkerReceive(w)
    \/ WorkerJobsClosed(w)
    \/ WorkerCancelled(w)
    \/ WorkerProcess(w)
    \/ WorkerSend(w)

\* the steps of Stop and of ForceStop after the first
Stopping ==
    \/ StopWait
    \/ StopCloseResults
    \/ StopCancel
    \/ ForceStopCloseJobs
    \/ ForceStopWait
    \/ ForceStopCloseResults

NextPool ==
    \/ Start
    \/ Submit
    \/ SubmitReport
    \/ \E w \in 1..workerCount : WorkerReceive(w)
    \/ \E w \in 1..workerCount : WorkerJobsClosed(w)
    \/ \E w \in 1..workerCount : WorkerCancelled(w)
    \/ \E w \in 1..workerCount : WorkerProcess(w)
    \/ \E w \in 1..workerCount : WorkerSend(w)
    \/ StopCloseJobs
    \/ ForceStopCancel
    \/ Stopping
    \/ ReceiveResult

SpecPool == InitPool /\ [][NextPool]_vars

\* The scheduler lets every goroutine that can take a step take one: the
\* workers, the caller of Submit, the caller of Stop once it has called, and
\* the goroutine that keeps receiving from Results().
SpecPoolFair ==
    /\ InitPool /\ [][NextPool]_vars
    /\ \A w \in 1..MaxWorkers : WF_vars(w <= workerCount /\ Worker(w))
    /\ WF_vars(Submit \/ SubmitReport)
    /\ WF_vars(Stopping)
    /\ WF_vars(ReceiveResult)

(***************************************************************************)
(* groupPagesIntoChapters: the properties of its result (SpecGroup).       *)
(***************************************************************************)
\* the pages of the first n chapters, in chapter order
RECURSIVE Concat(_, _)
Concat(chs, n) == IF n = 0 THEN <<>> ELSE Concat(chs, n - 1) \o chs[n]

\* page k is the first or the last page of one of the chapters
AtBoundary(chs, k) ==
    \E c \in 1..Len(chs) :
        /\ Len(chs[c]) > 0
        /\ chs[c][1].Number = k \/ chs[c][Len(chs[c])].Number = k

\* C1: the chapters returned, concatenated in chapter order, are the input
\* pages: the same pages in the same order, none twice and none left out, so
\* the page numbers increase strictly over the whole output; while the loop
\* runs the closed chapters and the open one hold the pages read so far.
C1_ChaptersKeepThePages ==
    /\ pc = "group" =>
          Concat(chapters, Len(chapters)) \o currentChapter = SubSeq(pages, 1, i)
    /\ pc = "grouped" =>
          LET out == Concat(chapters, Len(chapters))
          IN /\ out = pages
             /\ \A k \in 1..(Len(out) - 1) : out[k].Number < out[k + 1].Number

\* C1: a run that returned several chapters for pages some of which have no text
C1_Witness ==
    /\ pc = "grouped"
    /\ Len(chapters) >= 3
    /\ \E k \in 1..Len(pages) : ~pages[k].HasText
    /\ \E k \in 1..Len(pages) : pages[k].HasText

\* C2: a non-empty page list gives at least one chapter, and no chapter
\* returned has zero pages, whatever the input, the fallback branch included.
C2_NoChapterWithoutPages ==
    pc = "grouped" =>
        /\ Len(pages) > 0 => Len(chapters) >= 1
        /\ \A c \in 1..Len(chapters) : Len(chapters[c]) >= 1

\* C3: no break closes a chapter of one page and none is taken at the first
\* page: every closed chapter, and in the result every chapter but the last,
\* has at least 2 pages, and page 1 is a chapter by itself only when it is the
\* whole document.
C3_ClosedChaptersHaveTwoPages ==
    /\ pc = "group" => \A c \in 1..Len(chapters) : Len(chapters[c]) >= 2
    /\ pc = "grouped" =>
          /\ \A c \in 1..(Len(chapters) - 1) : Len(chapters[c]) >= 2
          /\ (Len(chapters) >= 1 /\ Len(chapters[1]) = 1) => Len(pages) = 1

\* C3: a run whose page 1 and page 2 both trigger (a marker and the size cap
\* on the text) and that closed its first chapter at page 3 or later
C3_Witness ==
    /\ pc = "grouped"
    /\ Len(pages) >= 3
    /\ pages[1].Text \in MarkerTexts
    /\ pages[2].Text \in MarkerTexts \/ Len(pages[1].Text) >= minTextPerChapter
    /\ Len(chapters) >= 2
    /\ Len(chapters[1]) >= 2

\* C4: when a break is taken at page p, the chapter closed holds the pages
\* accumulated before p only, the accumulators are reset, and p is the first
\* page of the next chapter.
C4_BreakBeforeThePage ==
    [][(pc = "group" /\ pc' = "group" /\ Len(chapters') = Len(chapters) + 1) =>
          /\ chapters'[Len(chapters')] = currentChapter
          /\ currentChapter' = <<pages[i + 1]>>
          /\ currentTextLength' = addTextLength(0, pages[i + 1])]_vars

\* C5: every page but the first that has text and a marker on its first line
\* is the first or the last page of a chapter returned, whatever breaks the
\* size caps took before it, and a marker on page 1 takes no break; 20 pages
\* of about 200 characters with "Chapter 2" opening page 10 give at least two
\* chapters with a boundary at page 10, and time spans opening pages 1, 6 and
\* 12 give boundaries at pages 6 and 12.
C5_MarkerPagesAtBoundaries ==
    pc = "grouped" =>
        /\ \A k \in 2..Len(pages) :
              pages[k].Text \in MarkerTexts => AtBoundary(chapters, k)
        /\ (Len(pages) >= 2 /\ pages[1].Text \in MarkerTexts) =>
              Len(chapters[1]) >= 2
        /\ pages = PagesOf(ScenarioChapter) =>
              Len(chapters) >= 2 /\ AtBoundary(chapters, 10)
        /\ pages = PagesOf(ScenarioTimeSpans) =>
              AtBoundary(chapters, 6) /\ AtBoundary(chapters, 12)

\* C5: the run with time spans opening pages 1, 6 and 12 has returned, a size
\* cap having closed a chapter before page 6
C5_Witness ==
    /\ pc = "grouped"
    /\ pages = PagesOf(ScenarioTimeSpans)
    /\ Len(chapters) >= 4
    /\ chapters[1][Len(chapters[1])].Number < 6

\* C6: no chapter has more than 15 pages, the open one and the returned ones
\* alike.
C6_AtMostFifteenPages ==
    /\ Len(currentChapter) <= 15
    /\ \A c \in 1..Len(chapters) : Len(chapters[c]) <= 15

\* C6: a run over more than 15 pages in which the page cap closed a chapter
C6_Witness ==
    /\ pc = "grouped"
    /\ Len(pages) > 15
    /\ \E c \in 1..Len(chapters) : Len(chapters[c]) = 15

(***************************************************************************)
(* The classifier: the properties of one call (SpecCall).                  *)
(***************************************************************************)
\* -10.0
MinusTen == -10 * Scale

\* the text has fewer than 20 characters once trimmed
IsShort(text) == Len(TrimSpace(text)) < 20

\* no character of the text and the next are both letters
NoLetterPair(text) ==
    \A k \in 1..(Len(text) - 1) :
        ~(/\ Char(text, k) \in DOMAIN LowerOf \/ IsLower(Char(text, k))
          /\ Char(text, k + 1) \in DOMAIN LowerOf \/ IsLower(Char(text, k + 1)))

FiveNoisePages ==
    /\ Len(doc) = 5
    /\ ~enableOCR
    /\ skipPages = {}
    /\ \A k \in 1..5 :
          /\ doc[k].open
          /\ ~doc[k].textErr
          /\ doc[k].text \in {NoiseA, NoiseB}

\* C9: in a run over 5 pages of consonants forming unseen pairs only, OCR
\* off, every page is classified noise (each pair has the floor 0.01, the
\* mean log-probability is below the threshold -3.8), every page ends with
\* empty text, and the rejected pages are 1, 2, 3, 4, 5 once the run is over.
C9_FiveNoisePagesRejected ==
    FiveNoisePages =>
        /\ \A t \in {NoiseA, NoiseB} :
              /\ Len(t) >= 20
              /\ \A k \in ScoredPairs(t) :
                    getTransitionProbability(Char(t, k), Char(t, k + 1)) = <<1, 100>>
        /\ rejectedPages = [k \in 1..pageIdx |-> k]
        /\ \A k \in 1..pageIdx : outPages[k].Text = "" /\ ~outPages[k].HasText
        /\ (pc = "processed" /\ result.err = "") =>
              /\ rejectedPages = <<1, 2, 3, 4, 5>>
              /\ Len(result.pages) = 5
              /\ \A k \in 1..5 : result.pages[k].Text = ""

\* C9: such a run has returned its 5 pages, texts of both kinds among them
C9_Witness ==
    /\ FiveNoisePages
    /\ pc = "processed"
    /\ result.err = ""
    /\ Len(result.pages) = 5
    /\ \E k \in 1..5 : doc[k].text = NoiseA
    /\ \E k \in 1..5 : doc[k].text = NoiseB

\* ProcessPage has run on page k and OCR gave a text for it
OcrGiven(k) ==
    /\ k <= pageIdx
    /\ k \notin skipPages
    /\ enableOCR
    /\ doc[k].image
    /\ ~doc[k].ocrErr

\* the text of page k is the OCR text, not the one extracted
TextFromOCR(k) ==
    /\ k <= pageIdx
    /\ k \notin skipPages
    /\ outPages[k].Text = doc[k].ocr
    /\ doc[k].ocr # extractedText(doc[k])

\* the OCR text of page k is substantially longer than the text extracted
OcrSubstantiallyLonger(k) ==
    LET ocrLen == Len(TrimSpace(doc[k].ocr))
        textLen == Len(TrimSpace(extractedText(doc[k])))
    IN ocrLen > textLen + 20 \/ (textLen = 0 /\ ocrLen > 10)

RejectedSet == {rejectedPages[n] : n \in 1..Len(rejectedPages)}

\* C11: a page for which a classifier call returned noise, on its OCR text,
\* on its native text or on both (its number is among the rejected pages),
\* is returned with empty Text and HasText false.
C11_RejectedPagesHaveNoText ==
    \A k \in 1..pageIdx :
        k \in RejectedSet => outPages[k].Text = "" /\ ~outPages[k].HasText

\* the page ProcessPage returns for a skipped page k
SkippedPage(k) ==
    [Number |-> k, Text |-> "", HasText |-> FALSE, HasImage |-> FALSE,
     PageType |-> PageTypeText]

\* C12: for a page number in the skip list ProcessPage returns the page with
\* that number, empty Text and HasText false, whatever extraction, OCR and
\* the classifier would have given for it (they are not invoked: a page that
\* cannot be opened gives no error, a page of noise is not rejected); the
\* page keeps its position in the result of ProcessPages and adds no
\* character to the text length of a chapter.
C12_SkippedPagesAreEmpty ==
    /\ \A k \in 1..pageIdx :
          k \in skipPages =>
              /\ outPages[k] = SkippedPage(k)
              /\ k \notin RejectedSet
              /\ \A n \in {0, 799} : addTextLength(n, outPages[k]) = n
    /\ result.err = "failed to process page" => result.page \notin skipPages
    /\ (pc = "processed" /\ result.err = "") =>
          /\ Len(result.pages) = Len(doc)
          /\ \A k \in 1..Len(doc) :
                k \in skipPages => result.pages[k] = SkippedPage(k)

\* C12: a run has returned its pages, the skipped page among them being one
\* that cannot be opened, or one of noise, in an image page range
C12_Witness ==
    /\ pc = "processed"
    /\ result.err = ""
    /\ Len(result.pages) >= 3
    /\ \E k \in skipPages :
          /\ k <= Len(doc)
          /\ k \in imagePageRange
          /\ ~doc[k].open \/ doc[k].text = NoiseB
    /\ RejectedSet # {}

\* the fields of the processor a classifier call does not write are as they
\* were before the first call
ProcessorUntouched ==
    /\ doc = <<>>
    /\ enableOCR = FALSE
    /\ skipPages = {}
    /\ imagePageRange = {}
    /\ outPages = <<>>
    /\ pageIdx = 0

C14_CleanerIsIdempotent ==
    pc = "recleaned" => tpAgain = tpOut

\* a line of nothing but digits, dashes, spaces and periods, with one run of
\* digits and no period before it
SurroundedDigits(l) ==
    /\ Len(l) > 0
    /\ \A k \in 1..Len(l) : Char(l, k) \in Digits \cup {"-", " ", "."}
    /\ \E a \in 1..Len(l) : \E b \in a..Len(l) :
          /\ \A k \in 1..Len(l) : Char(l, k) \in Digits <=> k \in a..b
          /\ \A k \in 1..(a - 1) : Char(l, k) # "."

\* the text has a line that is a page number
HasPageNumberLine(text) ==
    \E k \in 1..Len(SplitLines(text)) : SurroundedDigits(SplitLines(text)[k])

\* C15: no line of the cleaner's output consists solely of digits surrounded
\* by dashes, spaces or a trailing period, wherever the line stood in the
\* page text.
C15_NoPageNumberLineInOutput ==
    pc = "cleaned" => ~HasPageNumberLine(tpOut)

\* a page number between two lines of prose was cleaned away, the prose kept
C15_Witness ==
    /\ pc = "cleaned"
    /\ tpText = "it was  late\r\n- - 42 -\nit was  late\r"
    /\ tpOut = "it was late\nit was late"

\* the PDF library failed to open, to extract or to render page k while the
\* page was processed
FailedPage(k) ==
    /\ k \notin skipPages
    /\ \/ ~doc[k].open
       \/ doc[k].textErr
       \/ /\ enableOCR
          /\ Len(TrimSpace(extractedText(doc[k]))) < 50
          /\ ~doc[k].image

\* C16: a failure while page k is processed aborts the run: the page is not
\* among the processed pages and no later page is processed, ProcessPages
\* returns no pages and an error that names page k, and no chapter is built.
C16_PageFailureAbortsTheRun ==
    \A k \in 1..Len(doc) :
        (pc # "init" /\ FailedPage(k)) =>
            /\ pageIdx < k
            /\ sections = <<>>
            /\ (pc = "processed" /\ pageIdx = k - 1 /\ ~ctxDone) =>
                   result = [pages |-> <<>>, err |-> "failed to process page",
                             page |-> k]

\* the trimmed entries of a comma-separated option, the empty ones left out
Tokens(str) ==
    {TrimSpace(Split(str, ",")[k]) : k \in 1..Len(Split(str, ","))} \ {""}

\* a page number: digits, not zero
IsPageNumeral(t) ==
    /\ Len(t) > 0
    /\ \A k \in 1..Len(t) : IsDigit(Char(t, k))
    /\ \E k \in 1..Len(t) : Char(t, k) # "0"

\* a page or a range of pages first-last, first not after last
WellFormedRange(t) ==
    \/ IsPageNumeral(t)
    \/ LET parts == Split(t, "-")
       IN /\ Len(parts) = 2
          /\ IsPageNumeral(TrimSpace(parts[1]))
          /\ IsPageNumeral(TrimSpace(parts[2]))
          /\ DigitsValue(TrimSpace(parts[1])) <= DigitsValue(TrimSpace(parts[2]))

\* the malformed tokens of the two options
MalformedTokens ==
    {t \in Tokens(options.ImagePageRange) : ~WellFormedRange(t)}
      \cup {t \in Tokens(options.SkipPages) : ~IsPageNumeral(t)}

\* the error names token t: t, or a part of it, is formatted into the message
NamesToken(err, t) ==
    \E k \in 1..Len(err.args) : err.args[k] # "" /\ Contains(t, err.args[k])

\* C17: with a malformed token in the image page ranges or in the skip list
\* the run ends in NewPDFProcessor with an error that names a malformed
\* token, and no page is processed: no result, no rejected page.
C17_MalformedOptionFailsFast ==
    (pc # "init" /\ MalformedTokens # {}) =>
        /\ pc = "done"
        /\ convErr # NoError
        /\ \E t \in MalformedTokens : NamesToken(convErr, t)
        /\ pageIdx = 0
        /\ outPages = <<>>
        /\ rejectedPages = <<>>
        /\ result = [pages |-> <<>>, err |-> "", page |-> 0]

\* C18: once the context is cancelled during ProcessPages, ProcessPages
\* returns the context error and no pages, and no chapter reaches the EPUB.
C18_CancelledRunReturnsNoPages ==
    (ctxDone /\ pc # "process") =>
        /\ result = [pages |-> <<>>, err |-> "context canceled", page |-> 0]
        /\ chapters = <<>>
        /\ sections = <<>>

\* the pages of the list that have text
TextPages(list) == {k \in 1..Len(list) : list[k].HasText}

\* what the converter had counted before generateEPUB
CountedBefore == IF Len(sections) > chapterIdx THEN EarlierStats ELSE ZeroStats

\* C19: after a successful generateEPUB the chapter count has grown by the
\* number of pages that have text, and the character count has grown when
\* there is such a page.
C19_OneChapterPerTextPage ==
    (pc = "generated" /\ genErr = NoError) =>
        /\ stats.ChapterCount
             = CountedBefore.ChapterCount + Cardinality(TextPages(pages))
        /\ TextPages(pages) # {} => stats.TextCharCount > CountedBefore.TextCharCount

\* C20: generateEPUB with no pages returns "no pages to convert" and leaves
\* the sections and the statistics as they were; AddChapter with no pages
\* returns an error and adds no section.
C20_NoPagesChangeNothing ==
    [][/\ (pc = "generate" /\ Len(pages) = 0) =>
              /\ pc' = "generated"
              /\ genErr'.msg = "no pages to convert"
              /\ UNCHANGED <<sections, stats>>
       /\ (pc = "generated" /\ Len(acPages) = 0) =>
              /\ acErr' # NoError
              /\ UNCHANGED <<sections, stats>>]_vars

\* both calls were made with no pages by a converter that had counted before
C20_Witness ==
    /\ pc = "added"
    /\ pages = <<>>
    /\ acPages = <<>>
    /\ genErr.msg = "no pages to convert"
    /\ acErr.msg = "no pages provided for chapter 'Chapter 1'"
    /\ stats = EarlierStats
    /\ sections = EarlierSections

(***************************************************************************)
(* C21.  For every input the output of cleanText has no carriage return,   *)
(* has every line trimmed of leading and trailing white space, does not    *)
(* start with a blank line and has no two blank lines in a row; an input   *)
(* of white space and line breaks only gives the empty string; and         *)
(* cleanText of the output is the output.                                  *)
(***************************************************************************)
OnlyWhiteSpace(text) == \A k \in 1..Len(text) : IsSpace(Char(text, k))

CleanTextShape(out) ==
    LET lines == SplitLines(out)
    IN /\ \A k \in 1..Len(out) : Char(out, k) # "\r"
       /\ \A k \in 1..Len(lines) : lines[k] = TrimSpace(lines[k])
       /\ out = "" \/ lines[1] # ""
       /\ \A k \in 1..(Len(lines) - 1) : ~(lines[k] = "" /\ lines[k + 1] = "")

C21_CleanTextOutput ==
    /\ pc \in {"cleanedText", "recleanedText"} =>
          /\ CleanTextShape(ctOut)
          /\ OnlyWhiteSpace(ctText) => ctOut = ""
    /\ pc = "recleanedText" => ctAgain = ctOut

\* Paragraphs with one and with two blank lines between them: one blank
\* line each is left, and the second call changes nothing.
C21_Witness ==
    /\ pc = "recleanedText"
    /\ ctText = "Paragraph 1\n\nParagraph 2\n\n\nParagraph 3"
    /\ ctOut = "Paragraph 1\n\nParagraph 2\n\nParagraph 3"
    /\ ctAgain = ctOut

(***************************************************************************)
(* C22.  Whenever, after a page has been appended, the open chapter holds  *)
(* at least 3 pages and at least 800 characters of text, the chapter is    *)
(* closed at that page; so in every chapter returned the pages before the  *)
(* last are fewer than 3 or hold fewer than 800 characters; and every      *)
(* break sets the accumulated length to 0.                                 *)
(***************************************************************************)
\* the sum of len(Text) over those of the first n pages that have text
RECURSIVE TextLengthOf(_, _)
TextLengthOf(ps, n) ==
    IF n = 0 THEN 0
    ELSE TextLengthOf(ps, n - 1) + (IF ps[n].HasText THEN Len(ps[n].Text) ELSE 0)

SizeCapReached(ps, n) == n >= 3 /\ TextLengthOf(ps, n) >= 800

C22_SizeCapClosesTheChapter ==
    /\ [](pc = "grouped" =>
            \A c \in 1..Len(chapters) :
               ~SizeCapReached(chapters[c], Len(chapters[c]) - 1))
    /\ [][(pc = "group" /\ i' = i + 1) =>
            LET current == Append(currentChapter, pages[i + 1])
            IN /\ SizeCapReached(current, Len(current)) =>
                     /\ chapters' = Append(chapters, current)
                     /\ currentChapter' = <<>>
               /\ chapters' # chapters => currentTextLength' = 0]_vars

\* Four pages of about 200 characters without a marker are the first
\* chapter, closed at the fourth page, and more pages follow.
C22_Witness ==
    /\ pc = "grouped"
    /\ Len(chapters) >= 2
    /\ Len(chapters[1]) = 4
    /\ \A k \in 1..4 : ~startsWithMarker(chapters[1][k])
    /\ SizeCapReached(chapters[1], 4)
    /\ ~SizeCapReached(chapters[1], 3)

(***************************************************************************)
(* C23.  The explicit-marker trigger fires exactly for the pages whose     *)
(* first non-blank line matches the chapter keyword pattern, "chapter" or  *)
(* "ch." in any case, a number after it or none: with a chapter open, a    *)
(* page of text that starts with such a line closes the chapter, and a     *)
(* chapter closed with neither a time span nor a size cap reached was      *)
(* closed by such a line.                                                  *)
(***************************************************************************)
\* (?i)^(chapter|ch\.)
KeywordMarker(line) ==
    ReLit(ToLower(line), {1}, "chapter") \cup ReLit(ToLower(line), {1}, "ch.") # {}

C23_KeywordLineBreaks ==
    [][(pc = "group" /\ i' = i + 1 /\ Len(currentChapter) > 0 /\ pages[i + 1].HasText) =>
         LET page == pages[i + 1]
             current == Append(currentChapter, page)
             closed == chapters' = Append(chapters, current)
         IN /\ KeywordMarker(firstLineOf(page)) => closed
            /\ (/\ closed
                /\ ~isTimeSpanChapterMarker(firstLineOf(page))
                /\ Len(current) < 15
                /\ ~(Len(current) >= 3 /\ currentTextLength' = 0
                       /\ currentTextLength + Len(page.Text) >= 800))
                  => KeywordMarker(firstLineOf(page))]_vars

(***************************************************************************)
(* C24.  The segmenter tests its markers on the cleaned text of a page,    *)
(* from which the Text Cleaner has taken the page-number and running-      *)
(* header lines: with a chapter open, a page of text whose cleaned text    *)
(* starts with a marker line closes the chapter, also when a page-number   *)
(* line stands before the marker in the raw text.                          *)
(***************************************************************************)
\* the page with its text as the Text Cleaner leaves it
CleanedPage(page) == [page EXCEPT !.Text = ProcessText(page.Text, TRUE)]

C24_MarkersReadFromCleanedText ==
    [][(pc = "group" /\ i' = i + 1 /\ Len(currentChapter) > 0 /\ pages[i + 1].HasText) =>
         LET page == pages[i + 1]
         IN startsWithMarker(CleanedPage(page)) =>
               chapters' = Append(chapters, Append(currentChapter, page))]_vars

(***************************************************************************)
(* C25.  The removal of running headers never deletes a chapter marker: a  *)
(* line of the text that is a keyword marker ("CHAPTER 5") or a time-span  *)
(* marker ("5-6am") is still a line of the cleaned text.                   *)
(***************************************************************************)
\* the lines of a text, trimmed
TrimmedLines(text) ==
    {TrimSpace(SplitLines(text)[k]) : k \in 1..Len(SplitLines(text))}

ChapterMarkerLine(line) == chapterPattern(line) \/ isTimeSpan(line)

C25_MarkersSurviveTheCleaner ==
    pc = "cleaned" =>
       \A line \in TrimmedLines(tpText) :
          ChapterMarkerLine(line) => line \in TrimmedLines(tpOut)

(***************************************************************************)
(* C26.  After ProcessPages the rejected-pages list is in strictly         *)
(* increasing page order: it holds exactly the numbers of the pages of     *)
(* which some text was rejected as noise, each of them once, also when     *)
(* both the OCR text and the native text of a page were rejected.          *)
(***************************************************************************)
\* the classifier was asked about the OCR text of page k and rejected it
OcrTextRejected(k) ==
    /\ ocrChecked(doc[k], extractedText(doc[k]), enableOCR)
    /\ isLikelyBleedThrough(TrimSpace(doc[k].ocr))

\* the classifier was asked about the text the OCR step left and rejected it
PageTextRejected(k) ==
    LET text == textAfterOCR(doc[k], extractedText(doc[k]), enableOCR)
    IN textChecked(text) /\ isLikelyBleedThrough(text)

SomeTextRejected(k) ==
    /\ ~isSkipped(k, skipPages)
    /\ doc[k].open
    /\ OcrTextRejected(k) \/ PageTextRejected(k)

StrictlyIncreasing(list) ==
    \A a, b \in 1..Len(list) : a < b => list[a] < list[b]

C26_RejectedPagesListedOnce ==
    (pc = "processed" /\ result.err = "") =>
       /\ StrictlyIncreasing(rejectedPages)
       /\ {rejectedPages[n] : n \in 1..Len(rejectedPages)}
             = {k \in 1..Len(doc) : SomeTextRejected(k)}

(***************************************************************************)
(* C27.  The short-word penalty and the verdict.                           *)
(***************************************************************************)
\* the white space separated tokens of a text, and those of them that have
\* one or two characters once the punctuation around them is taken off
TokenCount(text) == Len(Fields(text))

ShortTokenCount(text) ==
    Cardinality({n \in 1..Len(Fields(text)) :
        Len(Trim(Fields(text)[n], {".", ",", "!", "?", ":", ";"})) \in {1, 2}})

\* -1.5 when k/n > 0.4, -0.5 when 0.2 < k/n <= 0.4, 0 when k/n <= 0.2
ShortWordPenalty(k, n) ==
    IF 5 * k > 2 * n THEN -(3 * Scale) \div 2
    ELSE IF 5 * k > n THEN -Scale \div 2
    ELSE 0

\* the base score and the suspicious penalty of scoreText
BaseScore(text) ==
    SumLogProb(text, 1, Len(text) - 1) \div Cardinality(ScoredPairs(text))

SuspiciousPenalty(text) ==
    (Cardinality({k \in ScoredPairs(text) :
         Suspicious(getTransitionProbability(Char(text, k), Char(text, k + 1)))})
       * (-2) * Scale) \div Cardinality(ScoredPairs(text))

\* -3.8
MinusThreePointEight == -(38 * Scale) \div 10

\* the text as scoreText reads it, and the sum scoreText returns for a text
\* with a pair of letters
ScoredText == ToLower(TrimSpace(callText))

ScoreSum ==
    BaseScore(ScoredText) + SuspiciousPenalty(ScoredText)
       + ShortWordPenalty(ShortTokenCount(ScoredText), TokenCount(ScoredText))

HourForm(s) == Len(s) \in {1, 2} /\ \A k \in 1..Len(s) : IsDigit(Char(s, k))

\* H or H:MM
ClockForm(s) ==
    \/ HourForm(s)
    \/ /\ Len(s) \in {4, 5}
       /\ HourForm(SubSeq(s, 1, Len(s) - 3))
       /\ Char(s, Len(s) - 2) = ":"
       /\ IsDigit(Char(s, Len(s) - 1)) /\ IsDigit(Char(s, Len(s)))

\* H.MM
DottedForm(s) ==
    /\ Len(s) \in {4, 5}
    /\ HourForm(SubSeq(s, 1, Len(s) - 3))
    /\ Char(s, Len(s) - 2) = "."
    /\ IsDigit(Char(s, Len(s) - 1)) /\ IsDigit(Char(s, Len(s)))

\* s ends in am or pm
HasAmPm(s) == Len(s) >= 2 /\ SubSeq(s, Len(s) - 1, Len(s)) \in {"am", "pm"}

WithoutAmPm(s) == SubSeq(s, 1, Len(s) - 2)

\* a dash, or "to" with white space around it or none
SeparatorForm(s) == s = "-" \/ TrimSpace(s) = "to"

\* the line, in lower case and trimmed, is of one of the three forms
TimeSpanForm(line) ==
    LET l == ToLower(TrimSpace(line))
    IN \E a \in 1..Len(l) : \E b \in (a + 1)..Len(l) :
          LET from == SubSeq(l, 1, a)
              sep == SubSeq(l, a + 1, b)
              to == SubSeq(l, b + 1, Len(l))
          IN /\ SeparatorForm(sep)
             /\ HasAmPm(to)
             /\ \/ ClockForm(from) /\ ClockForm(WithoutAmPm(to))
                \/ HasAmPm(from) /\ ClockForm(WithoutAmPm(from))
                      /\ ClockForm(WithoutAmPm(to))
                \/ DottedForm(from) /\ DottedForm(WithoutAmPm(to))

C28_RecognisersAgree ==
    /\ pc \in {"timeSpanSegmenter", "timeSpanBoth"} => (tsMarker <=> TimeSpanForm(tsLine))
    /\ pc \in {"timeSpanCleaner", "timeSpanBoth"} => (tsSpan <=> TimeSpanForm(tsLine))
    /\ pc = "timeSpanBoth" => tsMarker = tsSpan

\* both have accepted " 12:30am to 1:30PM "
C28_Witness ==
    /\ pc = "timeSpanBoth"
    /\ tsLine = " 12:30am to 1:30PM "
    /\ tsMarker /\ tsSpan

(***************************************************************************)
(* C29.  Graceful shutdown of the worker pool: when Stop is called after   *)
(* the jobs have been submitted and a goroutine keeps receiving from       *)
(* Results(), Stop returns in the end, whatever the order the workers run  *)
(* in; every submitted job has then been processed once, by one worker,    *)
(* and one Result for every submitted job was sent before the results      *)
(* channel was closed, and is received.                                    *)
(***************************************************************************)
\* Stop, not ForceStop, was called, after every Submit had returned
GracefulStop ==
    /\ afterSubmits
    /\ poolPc \in {"stopWait", "stopCloseResults", "stopCancel", "stopped"}

\* the copies in a bag of results of the results of one job
ResultsOf(bag, job) ==
    CopiesIn(Result(job, ""), bag) + CopiesIn(Result(job, ctxErr), bag)

ProcessedTimes(job) == CopiesIn(job, processedJobs)

SentTimes(job) == ResultsOf(sent, job)

C29_StopIsGraceful ==
    /\ [](GracefulStop => panicked = "")
    /\ [](GracefulStop /\ (resultsClosed \/ poolPc = "stopped") =>
             \A job \in 1..numJobs :
                /\ ProcessedTimes(job) = 1
                /\ SentTimes(job) = 1
                /\ BagIn(Result(job, ""), sent))
    /\ GracefulStop ~>
          (/\ poolPc = "stopped"
           /\ \A job \in 1..numJobs : ResultsOf(received, job) = 1)

\* Stop has returned after two workers shared three jobs
C29_Witness ==
    /\ poolPc = "stopped"
    /\ afterSubmits
    /\ workerCount = 2
    /\ numJobs = 3
    /\ processedBy = {1, 2}
    /\ BagCardinality(sent) = 3
    /\ resultsClosed

(***************************************************************************)
(* C30.  The worker pool never sends on a closed channel: however Submit,  *)
(* the workers and Stop or ForceStop interleave, a Submit that starts      *)
(* after Stop or ForceStop has returned included, no goroutine sends on    *)
(* the closed jobs channel or on the closed results channel.               *)
(***************************************************************************)
C30_NoSendOnClosedChannel == panicked = ""

====
